---- MODULE Spec2Model ----
(***************************************************************************)
(* State-machine model of the qwiklytics Store (actions, middleware        *)
(* pipeline, subscribers, hydrate, destroy).                               *)
(*                                                                         *)
(* The repository holds three Store classes that take middlewares:         *)
(*   "core" : src/src/core/store.ts          (with createAction of          *)
(*            src/src/core/action.ts:82-123, called without a store)       *)
(*   "v4"   : src/unnamed/part_004:172-307   (with createAction of          *)
(*            src/src/core/action.ts:21-43, given the middleware array)    *)
(*   "v5"   : src/unnamed/part_005:55-351    (with createAction of          *)
(*            src/src/core/action.ts:82-123, given the store)              *)
(* impl says which class the modelled store is an instance of.             *)
(*                                                                         *)
(* The state T is {count: number}, modelled by the number.  A public       *)
(* operation is one step; trace holds what that operation did, in order:   *)
(* the hooks, reducer, commit, listener and DevTools calls it made.        *)
(***************************************************************************)
EXTENDS Integers, Sequences, FiniteSets, TLC

\* ---------------------------------------------------------------- bounds
\* count is kept in 0..StateMod-1 by the reducer and the "inc" middleware
StateMod == 3
\* longest config.middlewares list the constructor is given
MaxMw == 2
\* most subscribe() calls per listener whose closure is not yet called
MaxSubs == 2

\* ------------------------------------------------------------ the inputs
Undefined == 0 - 1
NoVal == 0 - 2

Impls == {"core", "v4", "v5"}
States == 0 .. (StateMod - 1)
\* an action's payload: undefined, or the number to add
Payloads == {Undefined, 1}

StoreName == "counter"
ActionKeys == {"add"}
EffectKeys == {"fetch"}
SelectorKeys == {"doubled"}
MissingKey == "missing"

\* Middleware kinds.  "validation" is createValidationMiddleware(validator),
\* which has no onAction; "inc" is the caller's
\*   {onAction: a => seen.push(a),
\*    process: (prev, next) => ({count: (next.count + 1) % StateMod})}
MwKinds == {"validation", "inc"}

\* Listener functions.  A only records its call; B records its call and, when
\* the count it is given is 0, calls an unsubscribe closure of A it was handed,
\* if one is outstanding.  The caller subscribes B once at a time.
Listeners == {"A", "B"}
SubsLimit(l) == IF l = "A" THEN MaxSubs ELSE 1

\* window.__QWIKLYTICS_DEVTOOLS__: absent; the devTools object installed by
\* enableQwiklyticsDevTools (it has no dispatch method); or an object that
\* has a dispatch method.
DevToolsKinds == {"absent", "sink", "dispatcher"}

VARIABLES
    impl,           \* which Store class
    state,          \* Store.state
    middlewares,    \* Store.middlewares / Store._middlewares
    registeredMws,  \* config.middlewares as the caller wrote it
    listeners,      \* Store.listeners: a Set, in insertion order
    subs,           \* per listener: subscribe() calls whose closure is uncalled
    actions,        \* keys of Store.actions
    effects,        \* keys of Store.effects
    selectors,      \* keys of Store.selectors
    actionPayload,  \* Action.payload of each action object
    devtools,       \* the window global
    lastOp,         \* the last public operation and how it returned
    trace,          \* the calls the last public operation made, in order
    hcfg,           \* HistoryPluginConfig and what the host offers
    plugin,         \* the closure variables of createHistoryPlugin
    host,           \* the state of the PluginHost the plugin is attached to
    storage,        \* the localStorage item under persistKey
    hop,            \* the last operation on host or plugin, and what it called
    burst,          \* the host changes the pending debounce buffer stands for
    effect,         \* the object createEffect returns: status, error
    calls,          \* the execute calls of the effect and their promises
    selcfg,         \* createSelector: which of the two, and its options
    sel,            \* the closure variables of createSelector
    sop,            \* the last call of the selector and what it did
    tree,           \* a Store's state as an object of objects, with references
    top,            \* the last action executed on it, and the state before
    rs,             \* a Store whose listeners execute actions: state, listeners
    rop,            \* its last public call, and the calls made inside it
    tm,             \* a Store with a throttle or debounce middleware, and the clock
    tmop,           \* the last step of that store
    ph,             \* a Store with plugins: middlewares, listeners, plugins map
    phop,           \* its last call, and the calls of plugin functions inside it
    tabs,           \* two tabs with the broadcast plugin: state and inbox each
    bop             \* the last step of a tab

storeVars == <<impl, state, middlewares, registeredMws, listeners, subs, actions,
               effects, selectors, actionPayload, devtools, lastOp, trace>>

pluginVars == <<hcfg, plugin, host, storage, hop, burst>>

effectVars == <<effect, calls>>
selectorVars == <<selcfg, sel, sop>>
draftVars == <<tree, top>>
reentryVars == <<rs, rop>>
timedVars == <<tm, tmop>>
hostVars == <<ph, phop>>
broadcastVars == <<tabs, bop>>
extVars == <<timedVars, hostVars, broadcastVars>>
unitVars == <<effectVars, selectorVars, draftVars, reentryVars, extVars>>

vars == <<storeVars, pluginVars, unitVars>>

\* no plugin is created
PluginsIdle ==
    /\ hcfg = NoVal
    /\ plugin = NoVal
    /\ host = NoVal
    /\ storage = NoVal
    /\ hop = NoVal
    /\ burst = NoVal

\* no effect and no selector is created
EffectIdle ==
    /\ effect = NoVal
    /\ calls = NoVal
SelectorIdle ==
    /\ selcfg = NoVal
    /\ sel = NoVal
    /\ sop = NoVal
DraftIdle ==
    /\ tree = NoVal
    /\ top = NoVal
ReentryIdle ==
    /\ rs = NoVal
    /\ rop = NoVal
TimedIdle ==
    /\ tm = NoVal
    /\ tmop = NoVal
HostIdle ==
    /\ ph = NoVal
    /\ phop = NoVal
BroadcastIdle ==
    /\ tabs = NoVal
    /\ bop = NoVal
ExtensionsIdle ==
    /\ TimedIdle
    /\ HostIdle
    /\ BroadcastIdle
UnitsIdle ==
    /\ EffectIdle
    /\ SelectorIdle
    /\ DraftIdle
    /\ ReentryIdle
    /\ ExtensionsIdle

\* ------------------------------------------------------------- sequences
RECURSIVE SeqsUpTo(_, _)
SeqsUpTo(S, n) ==
    IF n = 0 THEN {<<>>}
    ELSE LET shorter == SeqsUpTo(S, n - 1)
         IN  shorter \cup {Append(q, x) : q \in shorter, x \in S}

Range(q) == {q[i] : i \in 1 .. Len(q)}

\* faulty variant of SetAdd: an array push, which keeps duplicates
SetAddAppends(q, x) == Append(q, x)

\* Set.prototype.add / delete on a Set kept in insertion order
SetAdd(q, x) == IF x \in Range(q) THEN q ELSE Append(q, x)
SetDelete(q, x) == SelectSeq(q, LAMBDA y : y # x)

\* ---------------------------------------------------------------- events
Ev(ev, idx, who, payload, prev, cand, out) ==
    [ev |-> ev, idx |-> idx, who |-> who, payload |-> payload,
     prev |-> prev, cand |-> cand, out |-> out]

ActionType(key) == StoreName \o "/" \o key

Op(op, key, payload, pre, cand, preListeners, ret) ==
    [op |-> op, key |-> key, payload |-> payload, pre |-> pre, cand |-> cand,
     preListeners |-> preListeners, ret |-> ret]

\* ------------------------------------------------------------ middleware
HasOnAction(k) == k \in {"inc", "logger", "pluginLogger"}
HasProcess(k) == k \in {"validation", "inc", "logger", "pluginLogger"}

\* the caller's validator: count must be even
Validator(s) == s % 2 = 0

Process(k, prevState, nextState) ==
    CASE k = "validation" -> IF Validator(nextState) THEN nextState ELSE prevState
      [] k = "inc" -> (nextState + 1) % StateMod
      [] OTHER -> nextState

\* fold of the process hooks from position i on: the events, in call order
RECURSIVE ProcessEvents(_, _, _, _)
ProcessEvents(mws, i, prevState, s) ==
    IF i > Len(mws) THEN <<>>
    ELSE IF HasProcess(mws[i])
         THEN LET out == Process(mws[i], prevState, s)
              IN  <<Ev("process", i, mws[i], NoVal, prevState, s, out)>>
                  \o ProcessEvents(mws, i + 1, prevState, out)
         ELSE ProcessEvents(mws, i + 1, prevState, s)

\* faulty variant of ProcessFold: the loop stops after the first hook
ProcessFoldFirstOnly(mws, prevState, nextState) ==
    LET all == ProcessEvents(mws, 1, prevState, nextState)
        evs == IF all = <<>> THEN <<>> ELSE <<all[1]>>
    IN  [state |-> IF evs = <<>> THEN nextState ELSE evs[1].out,
         events |-> evs]

\* the state the process hooks leave: the last hook's output, or the
\* candidate when no hook ran
ProcessFold(mws, prevState, nextState) ==
    LET evs == ProcessEvents(mws, 1, prevState, nextState)
    IN  [state |-> IF evs = <<>> THEN nextState ELSE evs[Len(evs)].out,
         events |-> evs]

\* the onAction hooks of mws, in order, with {type, payload}
RECURSIVE OnActionEvents(_, _, _, _)
OnActionEvents(mws, i, key, payload) ==
    IF i > Len(mws) THEN <<>>
    ELSE (IF HasOnAction(mws[i])
          THEN <<Ev("onAction", i, ActionType(key), payload, NoVal, NoVal, NoVal)>>
          ELSE <<>>)
         \o OnActionEvents(mws, i + 1, key, payload)

\* ------------------------------------------------------------- listeners
\* B's body: if (s.count === 0) unsubscribeA()
CallsUnsubscribeOfA(l, s, sb) == l = "B" /\ s = 0 /\ sb["A"] > 0

\* Set.prototype.forEach over the listeners: an entry deleted before its
\* turn is not visited
RECURSIVE ForEachListener(_, _, _, _, _)
ForEachListener(rest, ls, sb, s, evs) ==
    IF rest = <<>> THEN [listeners |-> ls, subs |-> sb, events |-> evs]
    ELSE LET l == Head(rest)
             call == Ev("notify", Len(evs) + 1, l, NoVal, NoVal, NoVal, s)
         IN  IF CallsUnsubscribeOfA(l, s, sb)
             THEN ForEachListener(SetDelete(Tail(rest), "A"),
                                  SetDelete(ls, "A"),
                                  [sb EXCEPT !["A"] = @ - 1], s,
                                  evs \o <<call,
                                           Ev("unsubscribe", Len(evs) + 2, "A",
                                              NoVal, NoVal, NoVal, NoVal)>>)
             ELSE ForEachListener(Tail(rest), ls, sb, s, Append(evs, call))

\* faulty variant of NotifyListeners: iterates a copy of the listeners, so a
\* listener unsubscribed during the loop is still called
RECURSIVE ForEachOfCopy(_, _, _, _, _)
ForEachOfCopy(rest, ls, sb, s, evs) ==
    IF rest = <<>> THEN [listeners |-> ls, subs |-> sb, events |-> evs]
    ELSE LET l == Head(rest)
             call == Ev("notify", Len(evs) + 1, l, NoVal, NoVal, NoVal, s)
         IN  IF CallsUnsubscribeOfA(l, s, sb)
             THEN ForEachOfCopy(Tail(rest), SetDelete(ls, "A"),
                                [sb EXCEPT !["A"] = @ - 1], s,
                                evs \o <<call,
                                         Ev("unsubscribe", Len(evs) + 2, "A",
                                            NoVal, NoVal, NoVal, NoVal)>>)
             ELSE ForEachOfCopy(Tail(rest), ls, sb, s, Append(evs, call))
NotifyListenersOfCopy(ls, sb, s) == ForEachOfCopy(ls, ls, sb, s, <<>>)

NotifyListeners(ls, sb, s) == ForEachListener(ls, ls, sb, s, <<>>)

\* -------------------------------------------------------------- DevTools
\* window.__QWIKLYTICS_DEVTOOLS__.dispatch({type, ...}) behind the
\* "global is defined" test
DevToolsDispatch(dt, type) ==
    CASE dt = "absent" -> [threw |-> FALSE, events |-> <<>>]
      [] dt = "dispatcher" ->
            [threw |-> FALSE,
             events |-> <<Ev("devtools", 0, type, NoVal, NoVal, NoVal, NoVal)>>]
      [] OTHER ->
            [threw |-> TRUE,
             events |-> <<Ev("throw", 0, "TypeError", NoVal, NoVal, NoVal, NoVal)>>]

NoDevTools == [threw |-> FALSE, events |-> <<>>]

\* --------------------------------------------------------------- reducer
\* config.actions.add = (draft, payload) => {
\*     if (typeof payload !== 'number') throw new TypeError('payload');
\*     draft.count = (draft.count + payload) % StateMod }
ReducerThrows(key, payload) == payload = Undefined
Reducer(key, s, payload) == (s + payload) % StateMod

\* faulty variant of Produce: the reducer's exception is swallowed
ProduceSwallows(s, key, payload) ==
    IF ReducerThrows(key, payload)
    THEN [threw |-> FALSE, next |-> s]
    ELSE [threw |-> FALSE, next |-> Reducer(key, s, payload)]

\* immer's produce(this.state, draft => reducer(draft, payload)): the new
\* state, or the reducer's exception with the draft discarded
Produce(s, key, payload) ==
    IF ReducerThrows(key, payload)
    THEN [threw |-> TRUE, next |-> s]
    ELSE [threw |-> FALSE, next |-> Reducer(key, s, payload)]

\* ----------------------------------------------------------- constructor
\* this.middlewares after the constructor ran with config.middlewares = cfg.
\* store.ts: this.middlewares = config.middlewares || [] makes the field the
\* caller's own array, and this.middlewares.push(...config.middlewares) then
\* appends that array's elements to itself.
ConstructMiddlewares(im, cfg) ==
    IF im = "core" THEN cfg \o cfg ELSE cfg

\* the registries the constructor fills
ConstructEffects(im) == IF im = "v4" THEN {} ELSE EffectKeys

\* --------------------------------------------------------------- commits
\* faulty variant of SetState: commits nextState instead of finalState
SetStateCommitsCandidate(mws, prevState, nextState, ls, sb, dt) ==
    LET fold == ProcessFold(mws, prevState, nextState)
        note == NotifyListeners(ls, sb, nextState)
        dev == DevToolsDispatch(dt, "STATE_CHANGED")
    IN  [state |-> nextState, listeners |-> note.listeners, subs |-> note.subs,
         threw |-> dev.threw,
         events |-> fold.events
                    \o <<Ev("commit", 0, "state", NoVal, prevState, nextState, nextState)>>
                    \o note.events \o dev.events]

\* store.ts Store.setState: process hooks, commit, listeners, DevTools
SetState(mws, prevState, nextState, ls, sb, dt) ==
    LET fold == ProcessFold(mws, prevState, nextState)
        finalState == fold.state
        note == NotifyListeners(ls, sb, finalState)
        dev == DevToolsDispatch(dt, "STATE_CHANGED")
    IN  [state |-> finalState, listeners |-> note.listeners, subs |-> note.subs,
         threw |-> dev.threw,
         events |-> fold.events
                    \o <<Ev("commit", 0, "state", NoVal, prevState, nextState, finalState)>>
                    \o note.events \o dev.events]

\* part_005 Store.setState: the same steps (notifyListeners, notifyDevTools)
SetStateV5(mws, prevState, nextState, ls, sb, dt) ==
    LET fold == ProcessFold(mws, prevState, nextState)
        finalState == fold.state
        note == NotifyListeners(ls, sb, finalState)
        dev == DevToolsDispatch(dt, "STATE_CHANGED")
    IN  [state |-> finalState, listeners |-> note.listeners, subs |-> note.subs,
         threw |-> dev.threw,
         events |-> fold.events
                    \o <<Ev("commit", 0, "state", NoVal, prevState, nextState, finalState)>>
                    \o note.events \o dev.events]

\* part_004 Store.applyState: reduce over the process hooks, commit, listeners
ApplyState(mws, prevState, nextState, ls, sb, dt) ==
    LET fold == ProcessFold(mws, prevState, nextState)
        finalState == fold.state
        note == NotifyListeners(ls, sb, finalState)
    IN  [state |-> finalState, listeners |-> note.listeners, subs |-> note.subs,
         threw |-> FALSE,
         events |-> fold.events
                    \o <<Ev("commit", 0, "state", NoVal, prevState, nextState, finalState)>>
                    \o note.events]

Commit(im, mws, prevState, nextState, ls, sb, dt) ==
    CASE im = "core" -> SetState(mws, prevState, nextState, ls, sb, dt)
      [] im = "v5" -> SetStateV5(mws, prevState, nextState, ls, sb, dt)
      [] OTHER -> ApplyState(mws, prevState, nextState, ls, sb, dt)

\* ---------------------------------------------------------- createAction
\* The middlewares whose onAction the action's execute calls.  store.ts
\* calls createAction(type, executor) and getAction hands out execute, which
\* is then called with the payload alone: targetStore is undefined and the
\* loop over targetStore.middlewares is skipped.  part_005 passes the store,
\* part_004 the middleware array.
ActionMiddlewares(im, mws) == IF im = "core" THEN <<>> ELSE mws

\* action.execute(payload): onAction hooks, the executor (produce, then the
\* store's commit), the ACTION_DISPATCHED DevTools event
ActionExecute(im, mws, st, ls, sb, dt, key, payload) ==
    LET onEvs == OnActionEvents(ActionMiddlewares(im, mws), 1, key, payload)
        prod == Produce(st, key, payload)
    IN  IF prod.threw
        THEN [state |-> st, listeners |-> ls, subs |-> sb, cand |-> NoVal,
              ret |-> "throws",
              events |-> onEvs
                  \o <<Ev("reducer", 0, key, payload, st, NoVal, NoVal),
                       Ev("throw", 0, "Error", NoVal, NoVal, NoVal, NoVal)>>]
        ELSE LET set == Commit(im, mws, st, prod.next, ls, sb, dt)
                 dev == IF set.threw THEN NoDevTools
                        ELSE DevToolsDispatch(dt, "ACTION_DISPATCHED")
             IN  [state |-> set.state, listeners |-> set.listeners,
                  subs |-> set.subs, cand |-> prod.next,
                  ret |-> IF set.threw \/ dev.threw THEN "throws" ELSE "ok",
                  events |-> onEvs
                      \o <<Ev("reducer", 0, key, payload, st, NoVal, prod.next)>>
                      \o set.events \o dev.events]

\* faulty variant of Lookup: Map.get's result is returned unchecked
LookupUnchecked(registry, key) == IF key \in registry THEN "callable" ELSE "undefined"

\* Map.get(key) and the "not found" throw of getAction/getEffect/getSelector
Lookup(registry, key) == IF key \in registry THEN "callable" ELSE "throws"

\* faulty variant of Hydrate: hydrate goes through setState
HydrateThroughSetState(s, ls, sb) ==
    LET set == SetState(middlewares, state, s, ls, sb, devtools)
    IN  [state |-> set.state, listeners |-> set.listeners, subs |-> set.subs,
         events |-> set.events]

\* Store.hydrate(s): this.state = s, then the listeners
Hydrate(s, ls, sb) ==
    LET note == NotifyListeners(ls, sb, s)
    IN  [state |-> s, listeners |-> note.listeners, subs |-> note.subs,
         events |-> <<Ev("commit", 0, "hydrate", NoVal, NoVal, NoVal, s)>> \o note.events]

\* ------------------------------------------------------------------ Init
\* a store of one of the classes ims, as its constructor leaves it
InitStore(ims) ==
    /\ impl \in ims
    /\ registeredMws \in SeqsUpTo(MwKinds, MaxMw)
    /\ middlewares = ConstructMiddlewares(impl, registeredMws)
    /\ state = 0
    /\ listeners = <<>>
    /\ subs = [l \in Listeners |-> 0]
    /\ actions = ActionKeys
    /\ effects = ConstructEffects(impl)
    /\ selectors = SelectorKeys
    /\ actionPayload = [k \in ActionKeys |-> Undefined]
    /\ devtools \in DevToolsKinds
    /\ lastOp = Op("new", "", NoVal, NoVal, NoVal, <<>>, "ok")
    /\ trace = <<>>
    /\ PluginsIdle
    /\ UnitsIdle

\* --------------------------------------------------------------- actions
\* store.getAction(key)
GetAction(key) ==
    /\ lastOp' = Op("getAction", key, NoVal, state, NoVal, listeners, Lookup(actions, key))
    /\ trace' = <<>>
    /\ UNCHANGED <<impl, state, middlewares, registeredMws, listeners, subs,
                   actions, effects, selectors, actionPayload, devtools>>
    /\ UNCHANGED <<pluginVars, unitVars>>

\* store.getEffect(key); the part_004 class has no such method
GetEffect(key) ==
    /\ impl # "v4"
    /\ lastOp' = Op("getEffect", key, NoVal, state, NoVal, listeners, Lookup(effects, key))
    /\ trace' = <<>>
    /\ UNCHANGED <<impl, state, middlewares, registeredMws, listeners, subs,
                   actions, effects, selectors, actionPayload, devtools>>
    /\ UNCHANGED <<pluginVars, unitVars>>

\* store.getSelector(key)
GetSelector(key) ==
    /\ lastOp' = Op("getSelector", key, NoVal, state, NoVal, listeners, Lookup(selectors, key))
    /\ trace' = <<>>
    /\ UNCHANGED <<impl, state, middlewares, registeredMws, listeners, subs,
                   actions, effects, selectors, actionPayload, devtools>>
    /\ UNCHANGED <<pluginVars, unitVars>>

\* what a call of an action's execute leaves in the variables
Executed(op, key, payload) ==
    LET r == ActionExecute(impl, middlewares, state, listeners, subs, devtools,
                           key, payload)
    IN  /\ state' = r.state
        /\ listeners' = r.listeners
        /\ subs' = r.subs
        /\ trace' = r.events
        /\ lastOp' = Op(op, key, payload, state, r.cand, listeners, r.ret)
        /\ actionPayload' = IF impl = "v4" THEN actionPayload
                            ELSE [actionPayload EXCEPT ![key] = payload]
        /\ UNCHANGED <<impl, middlewares, registeredMws, actions, effects,
                       selectors, devtools>>
        /\ UNCHANGED <<pluginVars, unitVars>>

\* store.getAction(key)(payload)
ExecuteAction(key, payload) ==
    /\ key \in actions
    /\ Executed("execute", key, payload)

\* store.dispatch(action) runs action.execute(action.payload);
\* part_004's dispatch(action, payload) runs action.execute(payload)
Dispatch(key, payload) ==
    /\ key \in actions
    /\ payload = IF impl = "v4" THEN payload ELSE actionPayload[key]
    /\ Executed("dispatch", key, payload)

\* store.subscribe(listener)
Subscribe(l) ==
    /\ subs[l] < SubsLimit(l)
    /\ listeners' = SetAdd(listeners, l)
    /\ subs' = [subs EXCEPT ![l] = @ + 1]
    /\ lastOp' = Op("subscribe", l, NoVal, state, NoVal, listeners, "ok")
    /\ trace' = <<>>
    /\ UNCHANGED <<impl, state, middlewares, registeredMws, actions, effects,
                   selectors, actionPayload, devtools>>
    /\ UNCHANGED <<pluginVars, unitVars>>

\* a closure subscribe(l) returned, called for the first time
Unsubscribe(l) ==
    /\ subs[l] > 0
    /\ listeners' = SetDelete(listeners, l)
    /\ subs' = [subs EXCEPT ![l] = @ - 1]
    /\ lastOp' = Op("unsubscribe", l, NoVal, state, NoVal, listeners, "ok")
    /\ trace' = <<>>
    /\ UNCHANGED <<impl, state, middlewares, registeredMws, actions, effects,
                   selectors, actionPayload, devtools>>
    /\ UNCHANGED <<pluginVars, unitVars>>

\* store.hydrate(s)
HydrateState(s) ==
    LET r == Hydrate(s, listeners, subs)
    IN  /\ state' = r.state
        /\ listeners' = r.listeners
        /\ subs' = r.subs
        /\ trace' = r.events
        /\ lastOp' = Op("hydrate", "", s, state, NoVal, listeners, "ok")
        /\ UNCHANGED <<impl, middlewares, registeredMws, actions, effects,
                       selectors, actionPayload, devtools>>
        /\ UNCHANGED <<pluginVars, unitVars>>

\* faulty variant of DestroyV5: the middleware list is left as it is
DestroyKeepsMiddlewares(mws, effs) ==
    [listeners |-> <<>>, actions |-> {}, effects |-> {}, selectors |-> {},
     middlewares |-> mws]

\* part_005 Store.destroy
DestroyV5(mws, effs) ==
    [listeners |-> <<>>, actions |-> {}, effects |-> {}, selectors |-> {},
     middlewares |-> <<>>]

\* part_004 Store.destroy: listeners, actions and selectors are cleared
DestroyV4(mws, effs) ==
    [listeners |-> <<>>, actions |-> {}, effects |-> effs, selectors |-> {},
     middlewares |-> mws]

\* store.destroy(); store.ts has no such method
Destroy ==
    /\ impl \in {"v4", "v5"}
    /\ LET r == IF impl = "v5" THEN DestroyV5(middlewares, effects)
                ELSE DestroyV4(middlewares, effects)
       IN  /\ listeners' = r.listeners
           /\ actions' = r.actions
           /\ effects' = r.effects
           /\ selectors' = r.selectors
           /\ middlewares' = r.middlewares
    /\ lastOp' = Op("destroy", "", NoVal, state, NoVal, listeners,
                    IF lastOp.op = "destroy" THEN "again" ELSE "ok")
    /\ trace' = <<>>
    /\ UNCHANGED <<impl, state, registeredMws, subs, actionPayload, devtools>>
    /\ UNCHANGED <<pluginVars, unitVars>>

Next ==
    \/ \E key \in ActionKeys \cup {MissingKey} : GetAction(key)
    \/ \E key \in EffectKeys \cup {MissingKey} : GetEffect(key)
    \/ \E key \in SelectorKeys \cup {MissingKey} : GetSelector(key)
    \/ \E key \in ActionKeys, payload \in Payloads : ExecuteAction(key, payload)
    \/ \E key \in ActionKeys, payload \in Payloads : Dispatch(key, payload)
    \/ \E l \in Listeners : Subscribe(l)
    \/ \E l \in Listeners : Unsubscribe(l)
    \/ \E s \in States : HydrateState(s)

NextStores ==
    \/ Next
    \/ Destroy

\* the Store of src/src/core/store.ts
Init == InitStore({"core"})
Spec == Init /\ [][Next]_vars

\* a Store of any of the three classes
InitStores == InitStore(Impls)
SpecStores == InitStores /\ [][NextStores]_vars

\* the Store of src/unnamed/part_005
InitV5 == InitStore({"v5"})
SpecV5 == InitV5 /\ [][NextStores]_vars

\* ================================================================ claims
\* what the last operation's trace holds
Positions(kind) == {i \in 1 .. Len(trace) : trace[i].ev = kind}
EventsOf(kind) == SelectSeq(trace, LAMBDA e : e.ev = kind)
IsActionOp == lastOp.op \in {"execute", "dispatch"}
Committed == Positions("commit") # {}
NotifyCount(l) == Cardinality({i \in Positions("notify") : trace[i].who = l})
UnsubscribedAt(l) == {i \in Positions("unsubscribe") : trace[i].who = l}
\* the open subscriptions of l when the last operation began
PreSubs(l) == subs[l] + Cardinality(UnsubscribedAt(l))
\* the positions in a middleware list of the entries with a given hook
RECURSIVE WithHook(_, _, _)
WithHook(mws, i, hook) ==
    IF i > Len(mws) THEN <<>>
    ELSE (IF (hook = "process" /\ HasProcess(mws[i]))
             \/ (hook = "onAction" /\ HasOnAction(mws[i]))
          THEN <<i>> ELSE <<>>) \o WithHook(mws, i + 1, hook)
IdxOf(evs) == [i \in 1 .. Len(evs) |-> evs[i].idx]

\* Mn.process(prev, ... M1.process(prev, candidate) ...) over a list
RECURSIVE NestedProcess(_, _, _, _)
NestedProcess(mws, n, prevState, candidate) ==
    IF n = 0 THEN candidate
    ELSE LET inner == NestedProcess(mws, n - 1, prevState, candidate)
         IN  IF HasProcess(mws[n]) THEN Process(mws[n], prevState, inner) ELSE inner

\* each process hook got the pre-transition state and the previous hook's output
ProcessChained ==
    LET ps == EventsOf("process")
    IN  \A i \in 1 .. Len(ps) :
            /\ ps[i].prev = lastOp.pre
            /\ ps[i].cand = IF i = 1 THEN lastOp.cand ELSE ps[i - 1].out

\* C1: with middlewares registered in order M1..Mn, an action transition
\* commits Mn.process(prev, ... M1.process(prev, candidate) ...), each hook
\* receiving the pre-transition state and the previous hook's output.
C1_MiddlewareFold ==
    (IsActionOp /\ Committed) =>
        /\ ProcessChained
        /\ state = NestedProcess(registeredMws, Len(registeredMws),
                                 lastOp.pre, lastOp.cand)

\* C2: when a process hook returns prevState and no later hook replaces it,
\* the state after the action is the pre-transition state and no listener is
\* called with the reducer's candidate.
VetoStands ==
    LET ps == EventsOf("process")
    IN  \E i \in 1 .. Len(ps) :
            /\ ps[i].who = "validation"
            /\ ps[i].out = ps[i].prev
            /\ \A j \in i .. Len(ps) : ps[j].out = lastOp.pre
C2_Veto ==
    (IsActionOp /\ Committed /\ VetoStands) =>
        /\ state = lastOp.pre
        /\ \A i \in Positions("notify") :
              /\ trace[i].out = lastOp.pre
              /\ lastOp.cand # lastOp.pre => trace[i].out # lastOp.cand
C2_Witness ==
    /\ IsActionOp /\ Committed /\ VetoStands
    /\ lastOp.cand # lastOp.pre
    /\ Positions("notify") # {}

\* the commit event that precedes position i
CommitBefore(i) == {c \in Positions("commit") : c < i}
\* the process hooks of the whole pipeline ran, in order, from the reducer's
\* candidate to the committed state
WholePipeline(c) ==
    LET ps == EventsOf("process")
    IN  /\ IdxOf(ps) = WithHook(middlewares, 1, "process")
        /\ ProcessChained
        /\ \A j \in Positions("process") : j < c
        /\ trace[c].out = IF ps = <<>> THEN lastOp.cand ELSE ps[Len(ps)].out

\* C3: every state passed to a listener is the result of a completed
\* transition folded through the whole process pipeline.
C3_OnlyPipelineStates ==
    \A i \in Positions("notify") :
        \E c \in CommitBefore(i) :
            /\ trace[c].who = "state"
            /\ trace[i].out = trace[c].out
            /\ WholePipeline(c)

\* C3 as amended: every state passed to a listener is either the result of a
\* completed action transition folded through the whole process pipeline, or
\* the state given to hydrate, which runs no process hook.
C3_PipelineOrHydrate ==
    \A i \in Positions("notify") :
        \E c \in CommitBefore(i) :
            /\ trace[i].out = trace[c].out
            /\ trace[i].out = state
            /\ \/ /\ trace[c].who = "state"
                  /\ IsActionOp
                  /\ WholePipeline(c)
               \/ /\ trace[c].who = "hydrate"
                  /\ lastOp.op = "hydrate"
                  /\ trace[c].out = lastOp.payload
                  /\ Positions("process") = {}
C3_Witness ==
    /\ IsActionOp
    /\ Positions("notify") # {}
    /\ Len(EventsOf("process")) >= 2
    /\ state # lastOp.cand

\* C4: executing an action calls the onAction of every registered middleware
\* that defines it exactly once, with {type: storeName/key, payload}, in
\* registration order, before the reducer and before any process hook.
C4_OnActionFirst ==
    IsActionOp =>
        LET os == EventsOf("onAction")
        IN  /\ IdxOf(os) = WithHook(registeredMws, 1, "onAction")
            /\ \A i \in 1 .. Len(os) :
                  /\ os[i].who = ActionType(lastOp.key)
                  /\ os[i].payload = lastOp.payload
            /\ \A i \in Positions("onAction") :
                  \A j \in Positions("reducer") \cup Positions("process") : i < j

\* C5: when the reducer throws, the exception reaches the caller, the state
\* is the one before the call and no listener is notified.
C5_ReducerThrows ==
    (IsActionOp /\ ReducerThrows(lastOp.key, lastOp.payload)) =>
        /\ lastOp.ret = "throws"
        /\ trace # <<>>
        /\ trace[Len(trace)].ev = "throw"
        /\ trace[Len(trace)].who = "Error"
        /\ state = lastOp.pre
        /\ ~Committed
        /\ Positions("notify") = {}
        /\ Positions("process") = {}
        /\ listeners = lastOp.preListeners
C5_Witness ==
    /\ IsActionOp
    /\ ReducerThrows(lastOp.key, lastOp.payload)
    /\ lastOp.ret = "throws"
    /\ Len(listeners) = 2
    /\ lastOp.pre # 0

\* the registry a lookup operation reads
RegistryOf(op) ==
    CASE op = "getAction" -> actions
      [] op = "getEffect" -> effects
      [] OTHER -> selectors
IsLookup == lastOp.op \in {"getAction", "getEffect", "getSelector"}

\* C6: getAction, getEffect and getSelector throw at the call for a key that
\* is not registered and never return undefined; for a registered key they
\* return a callable; the store's state is left as it was.
C6_Lookups ==
    IsLookup =>
        /\ lastOp.key \notin RegistryOf(lastOp.op) => lastOp.ret = "throws"
        /\ lastOp.key \in RegistryOf(lastOp.op) => lastOp.ret = "callable"
        /\ lastOp.ret # "undefined"
        /\ state = lastOp.pre
        /\ listeners = lastOp.preListeners
        /\ trace = <<>>
C6_Witness ==
    /\ lastOp.op = "getEffect"
    /\ lastOp.key = MissingKey
    /\ lastOp.ret = "throws"

\* the listeners of q that the trace notifies, in the order of q
Notified(q) == SelectSeq(q, LAMBDA l : NotifyCount(l) > 0)
\* the listeners the notify events name, in trace order
NotifyOrder == [i \in 1 .. Len(EventsOf("notify")) |-> EventsOf("notify")[i].who]

\* C7: each committed transition calls every subscribed listener once, inside
\* the operation, with the committed state, in subscription order; a listener
\* is not called once an unsubscribe closure of it has been called.
C7_Notification ==
    /\ Committed =>
          /\ \A l \in Range(lastOp.preListeners) :
                \/ NotifyCount(l) = 1
                \/ /\ NotifyCount(l) = 0
                   /\ UnsubscribedAt(l) # {}
          /\ \A i \in Positions("notify") :
                /\ trace[i].out = state
                /\ trace[i].who \in Range(lastOp.preListeners)
                /\ \A c \in Positions("commit") : c < i
                /\ \A u \in UnsubscribedAt(trace[i].who) : i < u
          /\ NotifyOrder = Notified(lastOp.preListeners)
    /\ ~Committed => Positions("notify") = {}
    /\ lastOp.op = "unsubscribe" => lastOp.key \notin Range(listeners)
    /\ \A l \in Listeners : UnsubscribedAt(l) # {} => l \notin Range(listeners)
C7_Witness ==
    /\ IsActionOp /\ Committed
    /\ lastOp.preListeners = <<"B", "A">>
    /\ NotifyCount("B") = 1
    /\ NotifyCount("A") = 0
    /\ UnsubscribedAt("A") # {}

\* C8: subscribing the same listener twice makes two independent
\* subscriptions: the listener is called twice per committed transition, and
\* calling one of the two closures leaves the other subscription active.
C8_IndependentSubscriptions ==
    /\ (Committed /\ Positions("unsubscribe") = {}) =>
          \A l \in Listeners : NotifyCount(l) = PreSubs(l)
    /\ (lastOp.op = "unsubscribe" /\ subs[lastOp.key] >= 1) =>
          lastOp.key \in Range(listeners)

\* C8 as amended: subscribing a listener that is already subscribed adds
\* nothing: the listener is held once and called once per committed
\* transition, and calling either closure removes the listener altogether.
C8_OneSubscription ==
    /\ \A i, j \in 1 .. Len(listeners) : listeners[i] = listeners[j] => i = j
    /\ (Committed /\ Positions("unsubscribe") = {}) =>
          \A l \in Listeners :
              NotifyCount(l) = IF l \in Range(lastOp.preListeners) THEN 1 ELSE 0
    /\ lastOp.op = "subscribe" => lastOp.key \in Range(listeners)
    /\ lastOp.op = "unsubscribe" => lastOp.key \notin Range(listeners)
C8_Witness ==
    /\ IsActionOp /\ Committed
    /\ Positions("unsubscribe") = {}
    /\ PreSubs("A") = 2
    /\ NotifyCount("A") = 1

\* C9: hydrate(s) makes s the state and calls every current listener with s;
\* it runs no onAction or process hook and emits no DevTools event, and it
\* leaves the registries and the middleware list as they were.
C9_Hydrate ==
    [][lastOp'.op = "hydrate" =>
          /\ state' = lastOp'.payload
          /\ \A l \in Range(listeners) :
                \/ \E i \in 1 .. Len(trace') :
                      /\ trace'[i].ev = "notify"
                      /\ trace'[i].who = l
                      /\ trace'[i].out = lastOp'.payload
                \/ \E u \in 1 .. Len(trace') :
                      /\ trace'[u].ev = "unsubscribe"
                      /\ trace'[u].who = l
          /\ \A i \in 1 .. Len(trace') :
                /\ trace'[i].ev \in {"commit", "notify", "unsubscribe"}
                /\ trace'[i].ev = "notify" => trace'[i].out = lastOp'.payload
          /\ lastOp'.ret = "ok"
          /\ UNCHANGED <<actions, effects, selectors, middlewares>>
      ]_vars
C9_Witness ==
    /\ lastOp.op = "hydrate"
    /\ Len(lastOp.preListeners) = 2
    /\ NotifyCount("A") = 1
    /\ middlewares = <<"validation", "inc">>
    /\ devtools = "dispatcher"
    /\ ~Validator(state)

C10_FirstDestroy ==
    /\ lastOp.op = "destroy"
    /\ lastOp.ret = "ok"
    /\ registeredMws # <<>>
    /\ lastOp.preListeners # <<>>

\* ======================================================= history plugin
\* createHistoryPlugin of src/src/plugins/history.ts, attached to a host that
\* offers the PluginHost interface: setState(next) replaces the state and
\* calls the subscribers, as Store.setState does with an empty pipeline.

\* HistoryPluginConfig.limit
Limit == 2
\* persistHistory keeps the last 10 entries
PersistedEntries == 10

\* null for a state, null for an action type
Null == 0 - 3
NullType == "null"
Unknown == "(unknown)"

\* debounceTime: 0, or a delay that lets other calls run before the timer
DebounceTimes == {0, 1}
\* filterActions / excludeActions
Filters ==
    { [filterActions |-> {}, excludeActions |-> {}],
      [filterActions |-> {ActionType("add")}, excludeActions |-> {}],
      [filterActions |-> {}, excludeActions |-> {ActionType("reset")}] }

HistoryEntry(action, prevState, nextState) ==
    [action |-> action, prevState |-> prevState, nextState |-> nextState]

\* the item an earlier session left under persistKey when its limit was
\* larger: Limit + 1 entries
StoredBefore ==
    [past |-> [i \in 1 .. (Limit + 1) |->
                 HistoryEntry(ActionType("add"), (i - 1) % StateMod, i % StateMod)],
     present |-> (Limit + 1) % StateMod,
     valid |-> TRUE]

\* an item whose text is not JSON
Malformed == [past |-> <<>>, present |-> Null, valid |-> FALSE]

\* the localStorage item: <<>> when absent, else <<item>>
Storages == {<<>>, <<StoredBefore>>, <<Malformed>>}

\* what getStorage() / resolveStorage() gives: a storage that works, null,
\* one whose getItem and setItem throw, one whose setItem throws (quota)
StorageKinds == {"ok", "null", "throws", "quota"}

\* Array.prototype.slice(-n): slice(-0) is slice(0), the whole array
SliceLast(q, n) ==
    IF n = 0 \/ n >= Len(q) THEN q ELSE SubSeq(q, Len(q) - n + 1, Len(q))

\* Array.prototype.slice(0, -1)
SliceFront(q) == IF q = <<>> THEN q ELSE SubSeq(q, 1, Len(q) - 1)

HEv(ev, action, prevState, nextState) ==
    [ev |-> ev, action |-> action, prevState |-> prevState, nextState |-> nextState]

\* the plugin closure, the storage item, the host state, and the calls made
World(p, st, h, evs) == [plugin |-> p, storage |-> st, host |-> h, events |-> evs]

isActionAllowed(type, filterActions, excludeActions) ==
    IF type \in excludeActions THEN FALSE
    ELSE IF filterActions # {} THEN type \in filterActions
    ELSE TRUE

\* an exception leaving the function that is running
Throw(w) == [w EXCEPT !.events = Append(w.events, HEv("throw", NullType, Null, Null))]
Threw(w) == \E i \in 1 .. Len(w.events) : w.events[i].ev = "throw"

\* the try block of persistHistory
TryPersistHistory(c, w) ==
    IF c.storage \in {"throws", "quota"} THEN Throw(w)
    ELSE [w EXCEPT !.storage =
            <<[past |-> SliceLast(w.plugin.past, PersistedEntries),
               present |-> w.plugin.present,
               valid |-> TRUE]>>]

\* faulty variant of persistHistory: no catch
persistHistoryUncaught(c, w) ==
    IF ~c.persistKey THEN w
    ELSE IF c.storage = "null" THEN w
    ELSE TryPersistHistory(c, w)

persistHistory(c, w) ==
    IF ~c.persistKey THEN w
    ELSE IF c.storage = "null" THEN w
    ELSE LET w1 == TryPersistHistory(c, w)
         IN  IF Threw(w1) THEN w ELSE w1

\* the try block of restoreHistory
TryRestoreHistory(c, w) ==
    IF c.storage = "throws" THEN Throw(w)
    ELSE IF w.storage = <<>> THEN w
    ELSE IF ~w.storage[1].valid THEN Throw(w)
    ELSE [w EXCEPT !.plugin.past = w.storage[1].past,
                   !.plugin.present = w.storage[1].present,
                   !.plugin.future = <<>>,
                   !.plugin.isUndoing = FALSE,
                   !.plugin.isRedoing = FALSE]

restoreHistory(c, w) ==
    IF ~c.persistKey THEN w
    ELSE IF c.storage = "null" THEN w
    ELSE LET w1 == TryRestoreHistory(c, w)
         IN  IF Threw(w1) THEN w ELSE w1

\* faulty variant of pushEntry: future is kept
pushEntryKeepsFuture(c, w, prevState, nextState, actionType) ==
    persistHistory(c,
        [w EXCEPT !.plugin.past =
                      SliceLast(Append(w.plugin.past,
                                       HistoryEntry(actionType, prevState, nextState)),
                                c.limit),
                  !.plugin.present = nextState,
                  !.events = Append(w.events,
                                    HEv("push", actionType, prevState, nextState))])

pushEntry(c, w, prevState, nextState, actionType) ==
    persistHistory(c,
        [w EXCEPT !.plugin.past =
                      SliceLast(Append(w.plugin.past,
                                       HistoryEntry(actionType, prevState, nextState)),
                                c.limit),
                  !.plugin.present = nextState,
                  !.plugin.future = <<>>,
                  !.events = Append(w.events,
                                    HEv("push", actionType, prevState, nextState))])

LabelOf(lastActionType) ==
    IF lastActionType = NullType THEN Unknown ELSE lastActionType

flushDebounce(c, w) ==
    IF w.plugin.pendingPrev = Null \/ w.plugin.pendingNext = Null THEN w
    ELSE LET actionType == LabelOf(w.plugin.lastActionType)
             w1 == IF isActionAllowed(actionType, c.filterActions, c.excludeActions)
                   THEN pushEntry(c, w, w.plugin.pendingPrev, w.plugin.pendingNext,
                                  actionType)
                   ELSE w
         IN  [w1 EXCEPT !.plugin.pendingPrev = Null,
                        !.plugin.pendingNext = Null,
                        !.plugin.debounceTimer = FALSE]

scheduleDebounce(c, w, prevState, nextState) ==
    [w EXCEPT !.plugin.pendingPrev = prevState,
              !.plugin.pendingNext = nextState,
              !.plugin.debounceTimer = TRUE]

\* the listener init gives to host.subscribe
StateListener(c, w, nextState) ==
    IF w.plugin.isUndoing \/ w.plugin.isRedoing
    THEN [w EXCEPT !.plugin.prevState = nextState]
    ELSE LET actionType == LabelOf(w.plugin.lastActionType)
             w1 == IF c.debounceTime > 0
                   THEN scheduleDebounce(c, w, w.plugin.prevState, nextState)
                   ELSE IF isActionAllowed(actionType, c.filterActions,
                                           c.excludeActions)
                   THEN pushEntry(c, w, w.plugin.prevState, nextState, actionType)
                   ELSE w
         IN  [w1 EXCEPT !.plugin.prevState = nextState,
                        !.plugin.lastActionType = NullType]

\* the listener init gives to host.subscribeAction
ActionListener(c, w, type) ==
    [w EXCEPT !.plugin.lastActionType = type]

\* PluginHost.setState: the state is replaced and the subscriber called
HostSetState(c, w, next) ==
    LET w1 == [w EXCEPT !.host = next]
    IN  IF w.plugin.hostRef THEN StateListener(c, w1, next) ELSE w1

\* faulty variant of undo: the host is set even when past is empty
undoAlwaysSets(c, w) ==
    IF ~w.plugin.hostRef THEN w
    ELSE LET w1 == [w EXCEPT !.plugin.isUndoing = TRUE,
                             !.events = Append(w.events,
                                 HEv("setState", NullType, Null, w.plugin.prevState))]
             w2 == HostSetState(c, w1, w.plugin.prevState)
         IN  persistHistory(c, [w2 EXCEPT !.plugin.isUndoing = FALSE])

undo(c, w) ==
    IF ~w.plugin.hostRef THEN w
    ELSE IF w.plugin.past = <<>> THEN w
    ELSE LET last == w.plugin.past[Len(w.plugin.past)]
             redoEntry == HistoryEntry(last.action, last.prevState, last.nextState)
             w1 == [w EXCEPT !.plugin.isUndoing = TRUE,
                             !.plugin.past = SliceFront(w.plugin.past),
                             !.plugin.future = <<redoEntry>> \o w.plugin.future,
                             !.plugin.present = last.prevState,
                             !.events = Append(w.events,
                                 HEv("setState", NullType, Null, last.prevState))]
             w2 == HostSetState(c, w1, last.prevState)
         IN  persistHistory(c, [w2 EXCEPT !.plugin.isUndoing = FALSE])

\* faulty variant of redo: the entry stays in future
redoKeepsFuture(c, w) ==
    IF ~w.plugin.hostRef THEN w
    ELSE IF w.plugin.future = <<>> THEN w
    ELSE LET next == w.plugin.future[1]
             entry == HistoryEntry(next.action, next.prevState, next.nextState)
             w1 == [w EXCEPT !.plugin.isRedoing = TRUE,
                             !.plugin.past = SliceLast(Append(w.plugin.past, entry),
                                                       c.limit),
                             !.plugin.present = next.nextState,
                             !.events = Append(w.events,
                                 HEv("setState", NullType, Null, next.nextState))]
             w2 == HostSetState(c, w1, next.nextState)
         IN  persistHistory(c, [w2 EXCEPT !.plugin.isRedoing = FALSE])

redo(c, w) ==
    IF ~w.plugin.hostRef THEN w
    ELSE IF w.plugin.future = <<>> THEN w
    ELSE LET next == w.plugin.future[1]
             entry == HistoryEntry(next.action, next.prevState, next.nextState)
             w1 == [w EXCEPT !.plugin.isRedoing = TRUE,
                             !.plugin.future = Tail(w.plugin.future),
                             !.plugin.past = SliceLast(Append(w.plugin.past, entry),
                                                       c.limit),
                             !.plugin.present = next.nextState,
                             !.events = Append(w.events,
                                 HEv("setState", NullType, Null, next.nextState))]
             w2 == HostSetState(c, w1, next.nextState)
         IN  persistHistory(c, [w2 EXCEPT !.plugin.isRedoing = FALSE])

clearHistory(c, w) ==
    persistHistory(c,
        [w EXCEPT !.plugin.past = <<>>,
                  !.plugin.present = IF w.plugin.hostRef THEN w.host
                                     ELSE w.plugin.present,
                  !.plugin.future = <<>>,
                  !.plugin.isUndoing = FALSE,
                  !.plugin.isRedoing = FALSE])

canUndo(p) == Len(p.past) > 0
canRedo(p) == Len(p.future) > 0
\* getEntries() with the default limit of 20
EntriesLimit == 20
getEntries(p) == SliceLast(p.past, EntriesLimit)

\* init(host)
init(c, w) ==
    LET w1 == restoreHistory(c, [w EXCEPT !.plugin.hostRef = TRUE])
        w2 == IF w1.plugin.present = Null
              THEN [w1 EXCEPT !.plugin.present = w.host]
              ELSE w1
    IN  [w2 EXCEPT !.plugin.prevState = w.host]

\* the function init returns
teardown(c, w) ==
    LET w1 == flushDebounce(c, w)
    IN  [w1 EXCEPT !.plugin.hostRef = FALSE]

NoFilter == [filterActions |-> {}, excludeActions |-> {}]

\* the host is a counter store: its actions and their reducers
HostKeys == {"add", "reset"}
HostReducer(key, s) == IF key = "add" THEN (s + 1) % StateMod ELSE 0

\* the plugin's config, and whether the host has subscribeAction
HistoryConfig(d, f, k, sa, s) ==
    [name |-> "history", limit |-> Limit, debounceTime |-> d,
     filterActions |-> f.filterActions, excludeActions |-> f.excludeActions,
     persistKey |-> k, subscribeAction |-> sa, storage |-> s]

\* the configurations: without debounce every filter on a host with
\* subscribeAction and no filter on a host without it; with debounce no
\* filter or filterActions; persistKey on the plain plugin, with every kind
\* of storage
Configs ==
    { HistoryConfig(0, f, FALSE, TRUE, "ok") : f \in Filters }
    \cup { HistoryConfig(0, NoFilter, FALSE, FALSE, "ok") }
    \cup { HistoryConfig(d, f, FALSE, TRUE, "ok") :
              d \in DebounceTimes \ {0}, f \in {g \in Filters : g.excludeActions = {}} }
    \cup { HistoryConfig(0, NoFilter, TRUE, TRUE, s) : s \in StorageKinds }

\* createHistoryPlugin(config): the closure variables as declared
NewPlugin ==
    [past |-> <<>>, present |-> Null, future |-> <<>>,
     isUndoing |-> FALSE, isRedoing |-> FALSE,
     hostRef |-> FALSE, prevState |-> Null, lastActionType |-> NullType,
     pendingPrev |-> Null, pendingNext |-> Null, debounceTimer |-> FALSE]

\* ---- what the pending buffer stands for (kept for the statements below)
\* len: the number of changes (2 for two or more), or Replayed once an
\* undo or redo ran while they were pending; prev: the host state before
\* the first change; type: the action type of the last change
Replayed == 0 - 4
NoBurst == [len |-> 0, prev |-> Null, type |-> NullType]

\* one more host change enters the buffer
BurstPlus(b, prevState, type) ==
    [len |-> IF b.len = Replayed THEN Replayed
             ELSE IF b.len < 2 THEN b.len + 1 ELSE 2,
     prev |-> IF b.len = 0 THEN prevState ELSE b.prev,
     type |-> type]

\* the last call: its kind, the action type the host ran, the calls of
\* host.setState and of pushEntry it made, the entries that left future,
\* and how many undone entries no later host change or clearHistory has
\* overtaken
HOp(op, type, w1, redoable) ==
    [op |-> op, type |-> type,
     sets |-> Len(SelectSeq(w1.events, LAMBDA e : e.ev = "setState")),
     pushes |-> Len(SelectSeq(w1.events, LAMBDA e : e.ev = "push")),
     dropped |-> IF Len(w1.plugin.future) < Len(plugin.future)
                 THEN Len(plugin.future) - Len(w1.plugin.future) ELSE 0,
     redoable |-> redoable,
     threw |-> Threw(w1)]

Now == World(plugin, storage, host, <<>>)

Becomes(w) ==
    /\ plugin' = w.plugin
    /\ storage' = w.storage
    /\ host' = w.host

InitHistory ==
    /\ impl = "core"
    /\ state = 0
    /\ middlewares = <<>>
    /\ registeredMws = <<>>
    /\ listeners = <<>>
    /\ subs = [l \in Listeners |-> 0]
    /\ actions = ActionKeys
    /\ effects = EffectKeys
    /\ selectors = SelectorKeys
    /\ actionPayload = [k \in ActionKeys |-> Undefined]
    /\ devtools = "absent"
    /\ lastOp = Op("new", "", NoVal, NoVal, NoVal, <<>>, "ok")
    /\ trace = <<>>
    /\ hcfg \in Configs
    /\ plugin = NewPlugin
    /\ host = 0
    /\ storage \in (IF hcfg.persistKey THEN Storages ELSE {<<>>})
    /\ hop = [op |-> "create", type |-> NullType, sets |-> 0, pushes |-> 0,
              dropped |-> 0, redoable |-> 0, threw |-> FALSE]
    /\ burst = NoBurst
    /\ UnitsIdle

\* plugin.init(host)
HistoryInit ==
    /\ hcfg.name = "history"
    /\ hop.op = "create"
    /\ LET w == init(hcfg, Now)
       IN  /\ Becomes(w)
           /\ hop' = HOp("init", NullType, w, 0)
    /\ burst' = NoBurst
    /\ UNCHANGED <<hcfg, storeVars, unitVars>>

\* the host runs the action key: it announces the action's type to
\* subscribeAction listeners, if it has that method, and commits the
\* reducer's result
Announced(c, key) == IF c.subscribeAction THEN ActionType(key) ELSE NullType

Transition(c, w, key) ==
    LET type == Announced(c, key)
        w0 == IF type # NullType THEN ActionListener(c, w, type) ELSE w
    IN  HostSetState(c, w0, HostReducer(key, w.host))

HostTransition(key) ==
    /\ hcfg.name = "history"
    /\ plugin.hostRef
    /\ LET type == Announced(hcfg, key)
           w == Transition(hcfg, Now, key)
       IN  /\ Becomes(w)
           /\ hop' = HOp("transition", type, w, 0)
           /\ burst' = IF hcfg.debounceTime > 0
                       THEN BurstPlus(burst, host, type)
                       ELSE burst
    /\ UNCHANGED <<hcfg, storeVars, unitVars>>

\* the debounce timer elapses
TimerFires ==
    /\ hcfg.name = "history"
    /\ plugin.debounceTimer
    /\ LET w == flushDebounce(hcfg, Now)
       IN  /\ Becomes(w)
           /\ hop' = HOp("timer", NullType, w, hop.redoable)
    /\ burst' = NoBurst
    /\ UNCHANGED <<hcfg, storeVars, unitVars>>

\* api.undo()
Undo ==
    /\ hcfg.name = "history"
    /\ plugin.hostRef
    /\ LET w == undo(hcfg, Now)
       IN  /\ Becomes(w)
           /\ hop' = HOp("undo", NullType, w,
                         IF w.events # <<>> THEN hop.redoable + 1
                         ELSE hop.redoable)
           /\ burst' = IF burst.len # 0 /\ w.events # <<>>
                       THEN [burst EXCEPT !.len = Replayed]
                       ELSE burst
    /\ UNCHANGED <<hcfg, storeVars, unitVars>>

\* api.redo()
Redo ==
    /\ hcfg.name = "history"
    /\ plugin.hostRef
    /\ LET w == redo(hcfg, Now)
       IN  /\ Becomes(w)
           /\ hop' = HOp("redo", NullType, w,
                         IF w.events # <<>> /\ hop.redoable > 0
                         THEN hop.redoable - 1
                         ELSE hop.redoable)
           /\ burst' = IF burst.len # 0 /\ w.events # <<>>
                       THEN [burst EXCEPT !.len = Replayed]
                       ELSE burst
    /\ UNCHANGED <<hcfg, storeVars, unitVars>>

\* api.clearHistory()
ClearHistory ==
    /\ hcfg.name = "history"
    /\ plugin.hostRef
    /\ LET w == clearHistory(hcfg, Now)
       IN  /\ Becomes(w)
           /\ hop' = HOp("clear", NullType, w, 0)
    /\ UNCHANGED <<hcfg, burst, storeVars, unitVars>>

\* the teardown function init returned
Teardown ==
    /\ hcfg.name = "history"
    /\ plugin.hostRef
    /\ LET w == teardown(hcfg, Now)
       IN  /\ Becomes(w)
           /\ hop' = HOp("teardown", NullType, w, hop.redoable)
    /\ burst' = NoBurst
    /\ UNCHANGED <<hcfg, storeVars, unitVars>>

NextHistory ==
    \/ HistoryInit
    \/ \E key \in HostKeys : HostTransition(key)
    \/ TimerFires
    \/ Undo
    \/ Redo
    \/ ClearHistory
    \/ Teardown

SpecHistory == InitHistory /\ [][NextHistory]_vars

\* ---------------------------------------------- history plugin: claims
Last(q) == q[Len(q)]
Unfiltered == hcfg.filterActions = {} /\ hcfg.excludeActions = {}
Undebounced == hcfg.debounceTime = 0
IsFlush(op) == op \in {"timer", "teardown"}

\* C11: with debounceTime 0 and no filters a host transition S -> S' is
\* recorded as the newest past entry; undo() sets the host to the newest
\* entry's prevState and moves the entry to the front of future; redo()
\* sets the host to the first future entry's nextState and moves it back.
\* From S0 -> S1 -> S2 two undos therefore give S1, then S0 with past empty,
\* and two redos S1, then S2 with future empty.
C11_UndoRedo ==
    [][ (Undebounced /\ Unfiltered) =>
        /\ (hop'.op = "transition" =>
               /\ plugin'.past # <<>>
               /\ Last(plugin'.past).prevState = host
               /\ Last(plugin'.past).nextState = host'
               /\ plugin'.past = SliceLast(Append(plugin.past, Last(plugin'.past)),
                                           hcfg.limit))
        /\ (hop'.op = "undo" /\ plugin.past # <<>> =>
               /\ host' = Last(plugin.past).prevState
               /\ plugin'.past = SliceFront(plugin.past)
               /\ plugin'.future = <<Last(plugin.past)>> \o plugin.future)
        /\ (hop'.op = "redo" /\ plugin.future # <<>> =>
               /\ host' = plugin.future[1].nextState
               /\ plugin'.future = Tail(plugin.future)
               /\ plugin'.past = SliceLast(Append(plugin.past, plugin.future[1]),
                                           hcfg.limit)) ]_vars

C11_Witness ==
    /\ Undebounced /\ Unfiltered /\ ~hcfg.persistKey
    /\ hop.op = "redo" /\ hop.sets = 1
    /\ plugin.future = <<>>
    /\ Len(plugin.past) = 2
    /\ plugin.past[1].prevState = 0
    /\ plugin.past[1].nextState = 1
    /\ plugin.past[2].prevState = 1
    /\ plugin.past[2].nextState = 2
    /\ host = 2

C13_BurstIsOneEntry ==
    [][ (IsFlush(hop'.op) /\ Unfiltered /\ burst.len = 2) =>
        /\ hop'.pushes = 1
        /\ Last(plugin'.past).prevState = burst.prev
        /\ Last(plugin'.past).nextState = host ]_vars

\* C14: while undone entries have been overtaken by no later host
\* transition and no clearHistory(), future is not empty.
C14_FutureStaysRedoable ==
    (hop.redoable > 0 /\ hop.op # "create") => plugin.future # <<>>

\* C15: a notification whose state equals the previous one adds no entry
\* and leaves future as it is.
C15_NoEntryWithoutDiff ==
    [][ (hop'.op = "transition" /\ host' = host) =>
        (hop'.pushes = 0 /\ plugin'.past = plugin.past
         /\ plugin'.future = plugin.future) ]_vars

\* C16: past and future never hold more than limit entries.
C16_Bounded ==
    hop.op # "create" =>
        (Len(plugin.past) <= hcfg.limit /\ Len(plugin.future) <= hcfg.limit)

\* C17: undo() with an empty past and redo() with an empty future call
\* host.setState not at all and leave the host state, past, future,
\* present and the storage item as they were.
C17_EmptyIsNoOp ==
    [][ \/ (hop'.op = "undo" /\ plugin.past = <<>>)
        \/ (hop'.op = "redo" /\ plugin.future = <<>>)
        => /\ hop'.sets = 0
           /\ host' = host
           /\ plugin' = plugin
           /\ storage' = storage ]_vars

C17_Witness ==
    /\ hop.op = "undo"
    /\ hop.sets = 0
    /\ plugin.past = <<>>
    /\ plugin.future # <<>>

\* C18: a pending pair whose action passes the filter is recorded exactly
\* once when the timer elapses or the teardown function runs, and nothing
\* stays pending.
C18_PendingRecordedOnce ==
    [][ (IsFlush(hop'.op) /\ plugin.pendingPrev # Null /\ burst.len # 0
         /\ isActionAllowed(LabelOf(burst.type), hcfg.filterActions,
                            hcfg.excludeActions)) =>
        /\ hop'.pushes = 1
        /\ plugin'.pendingPrev = Null
        /\ ~plugin'.debounceTimer ]_vars

\* C19: on a host with subscribeAction a recorded entry carries the type of
\* the action that made the transition (of the burst's action when it was
\* coalesced).
C19_EntryLabel ==
    [][ (hcfg.subscribeAction /\ hop'.pushes > 0) =>
        /\ (hop'.op = "transition" => Last(plugin'.past).action = hop'.type)
        /\ (IsFlush(hop'.op) => Last(plugin'.past).action = burst.type) ]_vars

\* ======================================================= persist plugin
\* createPersistPlugin of src/src/plugins/persist.ts on a host whose state is
\* an object with the keys count and other; a key that is absent has the
\* value Undefined. The variables hcfg, plugin, host, storage and hop hold
\* the plugin's config, its subscription, the host state, the storage item
\* and the last call.

StateKeys == {"count", "other"}
\* the initial state the store's code defines
InitialState == [count |-> 0, other |-> 2]
\* PersistConfig.version, by default
Version == 1

\* JSON.stringify of an object: the properties that are not undefined
Stringify(obj) == {<<k, obj[k]>> : k \in {x \in StateKeys : obj[x] # Undefined}}

\* JSON.parse of such a text
Parse(text) ==
    [k \in StateKeys |->
        IF \E v \in States : <<k, v>> \in text
        THEN CHOOSE v \in States : <<k, v>> \in text
        ELSE Undefined]

\* whitelist: <<>> when not given, else <<keys>>; blacklist: a set
pickKeys(st, whitelist, blacklist) ==
    LET keys == IF whitelist = <<>>
                THEN {k \in StateKeys : st[k] # Undefined}
                ELSE whitelist[1]
    IN  [k \in StateKeys |->
            IF k \in keys /\ k \notin blacklist THEN st[k] ELSE Undefined]

\* the item under config.key: an envelope {_version, _timestamp, state}, a
\* bare state written without envelope, or a text that is not JSON
Envelope(version, text) == [kind |-> "envelope", version |-> version, state |-> text]
Bare(text) == [kind |-> "bare", version |-> Version, state |-> text]
Garbage == [kind |-> "garbage", version |-> Version, state |-> {}]

\* what an earlier session left in the storage: nothing, an envelope of the
\* version before, a bare state, a text that is not JSON
StoredState == [count |-> 1, other |-> Undefined]
PersistStorages ==
    { <<>>, <<Envelope(Version - 1, Stringify(StoredState))>>,
      <<Bare(Stringify(StoredState))>>, <<Garbage>> }

\* config.migrate, where given: the keys the old state lacks are filled in
Migrate(raw) ==
    [k \in StateKeys |-> IF raw[k] = Undefined THEN InitialState[k] ELSE raw[k]]

LoadResult(restored, migrated, threw) ==
    [restored |-> restored, migrated |-> migrated, threw |-> threw]

\* the try block of load()
TryLoad(c, item) ==
    IF c.storage = "throws" THEN LoadResult(<<>>, FALSE, TRUE)
    ELSE IF item = <<>> THEN LoadResult(<<>>, FALSE, FALSE)
    ELSE IF item[1].kind = "garbage" THEN LoadResult(<<>>, FALSE, TRUE)
    ELSE LET rawState == Parse(item[1].state)
         IN  IF c.migrate
             THEN LoadResult(<<Migrate(rawState)>>, TRUE, FALSE)
             ELSE LoadResult(<<rawState>>, FALSE, FALSE)

\* load(): restored is <<>> for null, else <<the state>>
load(c, item) ==
    IF c.storage = "null" THEN LoadResult(<<>>, FALSE, FALSE)
    ELSE LET r == TryLoad(c, item)
         IN  IF r.threw THEN LoadResult(<<>>, r.migrated, FALSE) ELSE r

SaveResult(item, threw) == [storage |-> item, threw |-> threw]

\* the try block of save(state)
TrySave(c, st, item) ==
    IF c.storage \in {"throws", "quota"} THEN SaveResult(item, TRUE)
    ELSE SaveResult(
            <<Envelope(Version, Stringify(pickKeys(st, c.whitelist, c.blacklist)))>>,
            FALSE)

\* faulty variant of save: an item that is there is kept
saveKeepsItem(c, st, item) ==
    IF c.storage = "null" \/ item # <<>> THEN SaveResult(item, FALSE)
    ELSE LET r == TrySave(c, st, item)
         IN  IF r.threw THEN SaveResult(item, FALSE) ELSE r

\* save(state): the item under config.key afterwards
save(c, st, item) ==
    IF c.storage = "null" THEN SaveResult(item, FALSE)
    ELSE LET r == TrySave(c, st, item)
         IN  IF r.threw THEN SaveResult(item, FALSE) ELSE r

\* PluginHost.setState(next) from init: the state is replaced
PersistHostSetState(st, next) == next

PersistConfig(wl, bl, m, s) ==
    [name |-> "persist", whitelist |-> wl, blacklist |-> bl, migrate |-> m,
     storage |-> s]

\* the configurations: every whitelist and blacklist, with and without
\* migrate, on a storage that works; the plain plugin on every other kind
PersistConfigs ==
    { PersistConfig(wl, bl, m, "ok") :
        wl \in {<<>>, <<{"count"}>>}, bl \in {{}, {"other"}, {"count"}},
        m \in BOOLEAN }
    \cup { PersistConfig(<<>>, {}, FALSE, s) : s \in StorageKinds }

\* the last call: its kind, whether a state was restored, whether migrate
\* was called, whether an exception left the plugin
POp(op, restored, migrated, threw) ==
    [op |-> op, restored |-> restored, migrated |-> migrated, threw |-> threw]

InitPersist ==
    /\ impl = "core"
    /\ state = 0
    /\ middlewares = <<>>
    /\ registeredMws = <<>>
    /\ listeners = <<>>
    /\ subs = [l \in Listeners |-> 0]
    /\ actions = ActionKeys
    /\ effects = EffectKeys
    /\ selectors = SelectorKeys
    /\ actionPayload = [k \in ActionKeys |-> Undefined]
    /\ devtools = "absent"
    /\ lastOp = Op("new", "", NoVal, NoVal, NoVal, <<>>, "ok")
    /\ trace = <<>>
    /\ hcfg \in PersistConfigs
    /\ plugin = [attached |-> FALSE]
    /\ host = InitialState
    /\ storage \in PersistStorages
    /\ hop = POp("create", FALSE, FALSE, FALSE)
    /\ burst = NoBurst
    /\ UnitsIdle

\* plugin.init(host)
PersistInit ==
    /\ hcfg.name = "persist"
    /\ ~plugin.attached
    /\ LET r == load(hcfg, storage)
       IN  /\ host' = IF r.restored # <<>>
                      THEN PersistHostSetState(host, r.restored[1])
                      ELSE host
           /\ hop' = POp("init", r.restored # <<>>, r.migrated, r.threw)
    /\ plugin' = [attached |-> TRUE]
    /\ UNCHANGED <<hcfg, storage, burst, storeVars, unitVars>>

\* the host commits a state in which key has the value v and notifies
HostCommit(key, v) ==
    /\ hcfg.name = "persist"
    /\ host' = [host EXCEPT ![key] = v]
    /\ LET r == IF plugin.attached THEN save(hcfg, host', storage)
                ELSE SaveResult(storage, FALSE)
       IN  /\ storage' = r.storage
           /\ hop' = POp("commit", FALSE, FALSE, r.threw)
    /\ UNCHANGED <<hcfg, plugin, burst, storeVars, unitVars>>

\* the function init returned
PersistTeardown ==
    /\ hcfg.name = "persist"
    /\ plugin.attached
    /\ plugin' = [attached |-> FALSE]
    /\ hop' = POp("teardown", FALSE, FALSE, FALSE)
    /\ UNCHANGED <<hcfg, host, storage, burst, storeVars, unitVars>>

\* a new session: a fresh store and a fresh plugin, the same storage
Reload ==
    /\ hcfg.name = "persist"
    /\ host' = InitialState
    /\ plugin' = [attached |-> FALSE]
    /\ hop' = POp("reload", FALSE, FALSE, FALSE)
    /\ UNCHANGED <<hcfg, storage, burst, storeVars, unitVars>>

NextPersist ==
    \/ PersistInit
    \/ \E key \in StateKeys, v \in States : HostCommit(key, v)
    \/ PersistTeardown
    \/ Reload

SpecPersist == InitPersist /\ [][NextPersist]_vars

\* both plugins, each on its own host
InitPlugins == InitHistory \/ InitPersist
NextPlugins == NextHistory \/ NextPersist
SpecPlugins == InitPlugins /\ [][NextPlugins]_vars

IsEnvelope(st) == st # <<>> /\ st[1].kind = "envelope"

\* C20: with whitelist ['count'] the written envelope's state holds count
\* only, and init against a stored envelope leaves the host with the
\* stored count and with the other it had before.
C20_RoundTrip ==
    [][ (hcfg.whitelist = <<{"count"}>> /\ hcfg.blacklist = {} /\ ~hcfg.migrate) =>
        /\ (hop'.op = "commit" /\ plugin.attached =>
               Parse(storage'[1].state)
                 = [count |-> host'.count, other |-> Undefined])
        /\ (hop'.op = "init" /\ IsEnvelope(storage)
                              /\ storage[1].version = Version =>
               /\ host'.count = Parse(storage[1].state).count
               /\ host'.other = host.other) ]_vars

\* C21: the written snapshot holds exactly the whitelisted keys when a
\* whitelist is given, with or without a blacklist; with a blacklist only,
\* every key of the state but the blacklisted ones; with neither, every key.
C21_SnapshotKeys ==
    [][ (hop'.op = "commit" /\ plugin.attached /\ hcfg.storage = "ok") =>
        LET present == {k \in StateKeys : host'[k] # Undefined}
            written == {k \in StateKeys : Parse(storage'[1].state)[k] # Undefined}
        IN  written = IF hcfg.whitelist # <<>>
                      THEN hcfg.whitelist[1] \cap present
                      ELSE present \ hcfg.blacklist ]_vars

\* the history plugin's config without persistKey
WithoutPersist(c) == [c EXCEPT !.persistKey = FALSE]

C23_MigrateOnlyOldData ==
    [][ (hcfg.name = "persist" /\ hop'.op = "init" /\ hcfg.storage = "ok"
           /\ IsEnvelope(storage) /\ storage[1].version = Version) =>
        /\ ~hop'.migrated
        /\ host' = Parse(storage[1].state) ]_vars

\* the state of the written envelope after JSON.parse
Projection(c, st) == Parse(Stringify(pickKeys(st, c.whitelist, c.blacklist)))

\* C24 as stated: once the plugin is initialised, after every state
\* notification the item is an envelope of the configured version whose
\* state is the filtered projection of the host's state.
C24_SnapshotIsLatest ==
    [][ (hop'.op = "commit" /\ plugin.attached) =>
        /\ IsEnvelope(storage')
        /\ storage'[1].version = Version
        /\ Parse(storage'[1].state) = Projection(hcfg, host') ]_vars
\* C24, amended: the same where the storage takes the write; where there is
\* no storage or setItem throws, the item stays as it was.
C24_SnapshotIsLatestWritten ==
    [][ (hop'.op = "commit" /\ plugin.attached) =>
        IF hcfg.storage = "ok"
        THEN /\ IsEnvelope(storage')
             /\ storage'[1].version = Version
             /\ Parse(storage'[1].state) = Projection(hcfg, host')
        ELSE storage' = storage ]_vars
\* a second notification replaced the item of the first
C24_Witness ==
    /\ hcfg.name = "persist"
    /\ hcfg.storage = "ok"
    /\ plugin.attached
    /\ hop.op = "commit"
    /\ IsEnvelope(storage)
    /\ storage[1].version = Version
    /\ host.count = 2
    /\ host.other = 1
    /\ Parse(storage[1].state) = Projection(hcfg, host)

\* =============================================================== effect
\* createEffect of src/src/core/effect.ts (the variant with a status): one
\* effect object, whose execute is called MaxCalls times; the calls may
\* overlap, each awaiting its own executor promise.
MaxCalls == 3
Calls == 1 .. MaxCalls

\* what a promise settles with: the executor's result, the executor's
\* error, the TypeError of a call of a method the global does not have
NoSettle == "none"
Result == "result"
Boom == "boom"
TypeErr == "TypeError"

\* what the executor does once called: it throws, or returns a promise
\* that is later fulfilled or rejected
ExecutorRuns == {"throws", "returns"}
ExecutorSettles == {"resolved", "rejected"}

NewEffect == [status |-> "idle", error |-> NoSettle]
\* a call: where its execute is, what its executor did, what its promise
\* settled with, the statuses its last step assigned
NewCall == [pc |-> "new", executor |-> "none", value |-> NoSettle, set |-> <<>>]

\* the catch and finally blocks of execute, entered with the error thrown
CatchFinally(dt, error) ==
    LET failed == DevToolsDispatch(dt, "EFFECT_FAILED")
        thrown == IF failed.threw THEN TypeErr ELSE error
        finalized == DevToolsDispatch(dt, "EFFECT_FINALIZED")
    IN  [status |-> "error", error |-> error, set |-> <<"error">>,
         pc |-> "rejected",
         value |-> IF finalized.threw THEN TypeErr ELSE thrown]

\* execute after the await, the executor's promise being fulfilled
AfterResolve(dt) ==
    LET completed == DevToolsDispatch(dt, "EFFECT_COMPLETED")
        finalized == DevToolsDispatch(dt, "EFFECT_FINALIZED")
    IN  IF completed.threw
        THEN [CatchFinally(dt, TypeErr) EXCEPT !.set = <<"success", "error">>]
        ELSE [status |-> "success", error |-> NoSettle, set |-> <<"success">>,
              pc |-> IF finalized.threw THEN "rejected" ELSE "fulfilled",
              value |-> IF finalized.threw THEN TypeErr ELSE Result]

\* execute up to the await: status, error, EFFECT_STARTED, the executor
ExecuteStart(e, dt, runs) ==
    LET started == DevToolsDispatch(dt, "EFFECT_STARTED")
    IN  IF started.threw
        THEN [status |-> "pending", error |-> NoSettle, set |-> <<"pending">>,
              pc |-> "rejected", value |-> TypeErr, executor |-> "none"]
        ELSE IF runs = "throws"
        THEN [CatchFinally(dt, Boom) EXCEPT !.set = <<"pending", "error">>]
                @@ [executor |-> "threw"]
        ELSE [status |-> "pending", error |-> NoSettle, set |-> <<"pending">>,
              pc |-> "awaiting", value |-> NoSettle, executor |-> "called"]

\* execute after the await
ExecuteSettle(e, dt, settles) ==
    IF settles = "resolved"
    THEN AfterResolve(dt) @@ [executor |-> "resolved"]
    ELSE LET r == CatchFinally(dt, Boom) IN r @@ [executor |-> "rejected"]

SetCall(c, r) ==
    /\ effect' = [status |-> r.status,
                  error |-> IF r.status = "error" THEN r.error ELSE NoSettle]
    /\ calls' = [calls EXCEPT ![c] =
                    [pc |-> r.pc, executor |-> r.executor, value |-> r.value,
                     set |-> r.set]]

InitEffect ==
    /\ impl = "core"
    /\ state = 0
    /\ middlewares = <<>>
    /\ registeredMws = <<>>
    /\ listeners = <<>>
    /\ subs = [l \in Listeners |-> 0]
    /\ actions = ActionKeys
    /\ effects = EffectKeys
    /\ selectors = SelectorKeys
    /\ actionPayload = [k \in ActionKeys |-> Undefined]
    /\ devtools \in DevToolsKinds
    /\ lastOp = Op("new", "", NoVal, NoVal, NoVal, <<>>, "ok")
    /\ trace = <<>>
    /\ PluginsIdle
    /\ effect = NewEffect
    /\ calls = [c \in Calls |-> NewCall]
    /\ SelectorIdle
    /\ DraftIdle
    /\ ReentryIdle
    /\ ExtensionsIdle

\* effect.execute(payload), up to its await
EffectExecute(c, runs) ==
    /\ calls[c].pc = "new"
    /\ \A d \in Calls : d < c => calls[d].pc # "new"
    /\ SetCall(c, ExecuteStart(effect, devtools, runs))
    /\ UNCHANGED <<storeVars, pluginVars, selectorVars, draftVars, reentryVars,
                 extVars>>

\* the executor's promise of call c settles and execute goes on
EffectSettle(c, settles) ==
    /\ calls[c].pc = "awaiting"
    /\ SetCall(c, ExecuteSettle(effect, devtools, settles))
    /\ UNCHANGED <<storeVars, pluginVars, selectorVars, draftVars, reentryVars,
                 extVars>>

\* enableQwiklyticsDevTools(): the devTools object becomes the global
EnableDevTools ==
    /\ devtools # "sink"
    /\ devtools' = "sink"
    /\ UNCHANGED <<impl, state, middlewares, registeredMws, listeners, subs,
                   actions, effects, selectors, actionPayload, lastOp, trace,
                   pluginVars, unitVars>>

NextEffect ==
    \/ \E c \in Calls, runs \in ExecutorRuns : EffectExecute(c, runs)
    \/ \E c \in Calls, settles \in ExecutorSettles : EffectSettle(c, settles)
    \/ EnableDevTools

SpecEffect == InitEffect /\ [][NextEffect]_vars

\* the call whose execute ran, or went on, in this step
Stepped(c) == calls'[c] # calls[c]

\* C25: the status starts as 'idle'; each execute call sets it to 'pending'
\* and runs the executor, then sets it to 'success' if the executor
\* resolves and to 'error' if it rejects or throws; when the executor
\* fails, the promise of execute rejects with the executor's error, and
\* whenever that promise rejects the status is 'error' by then. The status
\* never goes back to 'idle' and never leaves 'idle' but for 'pending'.
C25_Lifecycle ==
    [][ /\ (effect'.status = "idle" => effect.status = "idle")
        /\ \A c \in Calls : Stepped(c) =>
             /\ "idle" \notin Range(calls'[c].set)
             /\ (effect.status = "idle" =>
                    calls'[c].set # <<>> /\ calls'[c].set[1] = "pending")
             /\ (calls[c].pc = "new" =>
                    /\ calls'[c].set # <<>> /\ calls'[c].set[1] = "pending"
                    /\ calls'[c].executor \in {"called", "threw"}
                    /\ (calls'[c].executor = "called" =>
                           effect'.status = "pending" /\ calls'[c].pc = "awaiting"))
             /\ (calls'[c].executor = "resolved" =>
                    /\ effect'.status = "success"
                    /\ calls'[c].pc = "fulfilled"
                    /\ calls'[c].value = Result)
             /\ (calls'[c].executor \in {"rejected", "threw"} =>
                    /\ effect'.status = "error"
                    /\ calls'[c].pc = "rejected"
                    /\ calls'[c].value = Boom)
             /\ (calls'[c].pc = "rejected" => effect'.status = "error") ]_vars

\* C26: overlapping execute calls of one effect have a status each: while
\* a call is not settled its status stays 'pending', whatever another
\* call does.
C26_IndependentStatus ==
    [][ \A c \in Calls :
          (calls[c].pc = "awaiting" /\ calls'[c].pc = "awaiting")
             => effect'.status = "pending" ]_vars

\* ============================================================= selector
\* the two createSelector of src/src/core/selector.ts: the one that
\* memoizes by the reference of the state ("reference"), and the one with
\* an equality function and a cache ("cached"). The states are objects:
\* a reference each, two of them with the same content.
MaxSize == 2
MaxRecomputations == 3

Refs == 1 .. (StateMod + 1)
Content(ref) == ref % StateMod

\* config.selectors.doubled = s => s.count * 2
SelectorFn(content) == content * 2

SelectorConfig(variant, memoize, maxSize) ==
    [variant |-> variant, memoize |-> memoize, maxSize |-> maxSize]

SelectorConfigs ==
    { SelectorConfig("reference", m, 1) : m \in BOOLEAN }
    \cup { SelectorConfig("cached", TRUE, n) : n \in 1 .. MaxSize }
    \cup { SelectorConfig("cached", FALSE, 1) }

\* the closure variables as declared; cache is the Map, in insertion order
NewSelector(variant) ==
    [lastState |-> IF variant = "reference" THEN Undefined ELSE Null,
     lastResult |-> IF variant = "reference" THEN Undefined ELSE Null,
     recomputations |-> 0,
     cache |-> <<>>]

\* what a call gives: the closure, the value returned, whether selectorFn ran
Selected(s, result, invoked) == [sel |-> s, result |-> result, invoked |-> invoked]

Computed(s, st) ==
    [s EXCEPT !.recomputations = @ + 1,
              !.lastState = st,
              !.lastResult = SelectorFn(Content(st))]

\* faulty variant of SelectByReference: the states are compared by content
SelectByContent(c, s, st) ==
    IF c.memoize /\ s.lastState # Undefined
                 /\ Content(st) = Content(s.lastState)
    THEN Selected(s, s.lastResult, FALSE)
    ELSE Selected(Computed(s, st), SelectorFn(Content(st)), TRUE)

\* the selector of the first createSelector
SelectByReference(c, s, st) ==
    IF c.memoize /\ st = s.lastState
    THEN Selected(s, s.lastResult, FALSE)
    ELSE Selected(Computed(s, st), SelectorFn(Content(st)), TRUE)

\* JSON.stringify(state)
StateKey(st) == Content(st)

\* the default equalityFn
equalityFn(a, b) == a = b \/ StateKey(a) = StateKey(b)

CacheKeys(cache) == {cache[i].key : i \in 1 .. Len(cache)}
CacheGet(cache, key) ==
    (CHOOSE i \in 1 .. Len(cache) : cache[i].key = key)
\* Map.prototype.set: a new key goes last
CacheSet(cache, key, result) == Append(cache, [key |-> key, result |-> result])

\* the selector of the second createSelector
SelectCached(c, s, st) ==
    IF c.memoize /\ s.lastState # Null /\ equalityFn(s.lastState, st)
    THEN Selected(s, s.lastResult, FALSE)
    ELSE IF c.memoize /\ c.maxSize > 1
    THEN LET key == StateKey(st)
         IN  IF key \in CacheKeys(s.cache)
             THEN Selected(s, s.cache[CacheGet(s.cache, key)].result, FALSE)
             ELSE LET result == SelectorFn(Content(st))
                      added == CacheSet(s.cache, key, result)
                      kept == IF Len(added) > c.maxSize THEN Tail(added) ELSE added
                  IN  Selected([Computed(s, st) EXCEPT !.cache = kept],
                               result, TRUE)
    ELSE Selected(Computed(s, st), SelectorFn(Content(st)), TRUE)

Select(c, s, st) ==
    IF c.variant = "reference" THEN SelectByReference(c, s, st)
    ELSE SelectCached(c, s, st)

\* selector.resetRecomputations()
resetRecomputations(c, s) ==
    IF c.variant = "reference"
    THEN [s EXCEPT !.recomputations = 0, !.lastState = Undefined]
    ELSE NewSelector("cached")

\* the last call: its kind, the state passed, the value returned, whether
\* selectorFn ran, and the keys in the order of their last use
SOp(op, arg, result, invoked, recency) ==
    [op |-> op, arg |-> arg, result |-> result, invoked |-> invoked,
     recency |-> recency]

Used(recency, key) == Append(SelectSeq(recency, LAMBDA k : k # key), key)

InitSelector ==
    /\ impl = "core"
    /\ state = 0
    /\ middlewares = <<>>
    /\ registeredMws = <<>>
    /\ listeners = <<>>
    /\ subs = [l \in Listeners |-> 0]
    /\ actions = ActionKeys
    /\ effects = EffectKeys
    /\ selectors = SelectorKeys
    /\ actionPayload = [k \in ActionKeys |-> Undefined]
    /\ devtools = "absent"
    /\ lastOp = Op("new", "", NoVal, NoVal, NoVal, <<>>, "ok")
    /\ trace = <<>>
    /\ PluginsIdle
    /\ EffectIdle
    /\ DraftIdle
    /\ ReentryIdle
    /\ ExtensionsIdle
    /\ selcfg \in SelectorConfigs
    /\ sel = NewSelector(selcfg.variant)
    /\ sop = SOp("create", Undefined, Undefined, FALSE, <<>>)

\* selector(state)
SelectorCall(ref) ==
    /\ sel.recomputations < MaxRecomputations
    /\ LET r == Select(selcfg, sel, ref)
       IN  /\ sel' = r.sel
           /\ sop' = SOp("call", ref, r.result, r.invoked,
                         Used(sop.recency, StateKey(ref)))
    /\ UNCHANGED <<selcfg, storeVars, pluginVars, effectVars, draftVars, reentryVars,
                 extVars>>

\* selector.resetRecomputations()
SelectorReset ==
    /\ sop.op = "call"
    /\ sel' = resetRecomputations(selcfg, sel)
    /\ sop' = SOp("reset", Undefined, Undefined, FALSE, <<>>)
    /\ UNCHANGED <<selcfg, storeVars, pluginVars, effectVars, draftVars, reentryVars,
                 extVars>>

NextSelector ==
    \/ \E ref \in Refs : SelectorCall(ref)
    \/ SelectorReset

SpecSelector == InitSelector /\ [][NextSelector]_vars

\* C27: a selector that memoizes by reference, over a pure selectorFn:
\* a call with the state of the call before does not run selectorFn, gives
\* its result and leaves recomputations as it is (1 after the first call);
\* a call with another reference runs selectorFn and adds 1.
C27_ReferenceMemo ==
    [][ (selcfg.variant = "reference" /\ selcfg.memoize /\ sop'.op = "call") =>
        /\ sop'.result = SelectorFn(Content(sop'.arg))
        /\ (sop.op = "call" /\ sop'.arg = sop.arg =>
               /\ ~sop'.invoked
               /\ sel'.recomputations = sel.recomputations)
        /\ (sop.op # "call" \/ sop'.arg # sop.arg =>
               /\ sop'.invoked
               /\ sel'.recomputations = sel.recomputations + 1)
        /\ (sop.op = "create" => sel'.recomputations = 1) ]_vars
\* the same reference a second time, after the first call
C27_Witness ==
    /\ selcfg.variant = "reference"
    /\ selcfg.memoize
    /\ sop.op = "call"
    /\ ~sop.invoked
    /\ sel.recomputations = 1

\* the key of the cache whose last use is the oldest
LeastRecentlyUsed(cache, recency) ==
    LET inCache == SelectSeq(recency, LAMBDA k : k \in CacheKeys(cache))
    IN  inCache[1]

\* C28: with memoize and maxSize > 1 the cache never holds more than
\* maxSize entries, and the entry that leaves it is the least recently
\* used one: an entry that was hit is not evicted before one used earlier.
C28_BoundedLru ==
    [][ (selcfg.variant = "cached" /\ selcfg.memoize /\ selcfg.maxSize > 1
           /\ sop'.op = "call") =>
        /\ Len(sel'.cache) <= selcfg.maxSize
        /\ \A k \in CacheKeys(sel.cache) \ CacheKeys(sel'.cache) :
               k = LeastRecentlyUsed(sel.cache, sop.recency) ]_vars

\* ==================================================== structural sharing
\* a Store whose state is {a: {v}, b: {v}}: every object has a reference.
\* The action of store.ts:52-57 passes this.state and the reducer to
\* immer's produce and gives the result to setState; the pipeline is empty.
Obj(ref, v) == [ref |-> ref, v |-> v]
Tree(ref, a, b) == [ref |-> ref, a |-> a, b |-> b]

RefsOf(t) == {t.ref, t.a.ref, t.b.ref}

\* the reference of an object created now: one no live object has
FreshRef(used) == CHOOSE r \in 1 .. (Cardinality(used) + 1) : r \notin used

\* config.actions of this store
\*   setA:     (draft, v) => { draft.a.v = v }
\*   replaceA: (draft, v) => { draft.a = {v} }
\*   setB:     (draft, v) => { draft.b.v = v }
\*   nothing:  (draft, v) => {}
TreeKeys == {"setA", "replaceA", "setB", "nothing"}
OnlyA(key) == key \in {"setA", "replaceA"}

\* faulty variant of ImmerProduce: a deep copy
ProduceDeepCopy(base, key, v, used) ==
    LET r1 == FreshRef(used)
        r2 == FreshRef(used \cup {r1})
        r3 == FreshRef(used \cup {r1, r2})
    IN  Tree(r1,
             Obj(r2, IF OnlyA(key) THEN v ELSE base.a.v),
             Obj(r3, IF key = "setB" THEN v ELSE base.b.v))

\* produce(base, draft => reducer(draft, v)): copy-on-write. An object the
\* reducer wrote to is cloned, and so is every object on the path to it;
\* the others are shared; without any change the base itself is returned
ImmerProduce(base, key, v, used) ==
    LET r1 == FreshRef(used)
        r2 == FreshRef(used \cup {r1})
    IN  CASE key = "setA" ->
                IF v = base.a.v THEN base
                ELSE Tree(r1, Obj(r2, v), base.b)
          [] key = "replaceA" ->
                \* the reducer's new object is r1, the copied root r2
                Tree(r2, Obj(r1, v), base.b)
          [] key = "setB" ->
                IF v = base.b.v THEN base
                ELSE Tree(r1, base.a, Obj(r2, v))
          [] OTHER -> base

\* the action's executor and the setState it calls, the pipeline empty
TreeExecute(base, key, v, used) ==
    ProcessFold(<<>>, base, ImmerProduce(base, key, v, used)).state

TOp(op, key, prev) == [op |-> op, key |-> key, prev |-> prev]

InitDraft ==
    /\ impl = "core"
    /\ state = 0
    /\ middlewares = <<>>
    /\ registeredMws = <<>>
    /\ listeners = <<>>
    /\ subs = [l \in Listeners |-> 0]
    /\ actions = ActionKeys
    /\ effects = EffectKeys
    /\ selectors = SelectorKeys
    /\ actionPayload = [k \in ActionKeys |-> Undefined]
    /\ devtools = "absent"
    /\ lastOp = Op("new", "", NoVal, NoVal, NoVal, <<>>, "ok")
    /\ trace = <<>>
    /\ PluginsIdle
    /\ EffectIdle
    /\ SelectorIdle
    /\ ReentryIdle
    /\ ExtensionsIdle
    /\ \E va \in States, vb \in States :
          tree = Tree(1, Obj(2, va), Obj(3, vb))
    /\ top = TOp("new", "", tree)

\* store.actions[key].execute(v); the state before stays referenced
DraftExecute(key, v) ==
    /\ tree' = TreeExecute(tree, key, v, RefsOf(tree))
    /\ top' = TOp("execute", key, tree)
    /\ UNCHANGED <<storeVars, pluginVars, effectVars, selectorVars, reentryVars,
                 extVars>>

NextDraft == \E key \in TreeKeys, v \in States : DraftExecute(key, v)

SpecDraft == InitDraft /\ [][NextDraft]_vars

\* C29: after an action whose reducer changes the top-level field a only,
\* the committed state is a new top-level reference, a has the new value,
\* and b is the very object the state before had as b.
C29_StructuralSharing ==
    [][ \A key \in TreeKeys, v \in States :
          (top'.op = "execute" /\ top'.key = key /\ OnlyA(key)
             /\ tree'.a.v = v /\ (v # tree.a.v \/ tree'.a.ref # tree.a.ref)) =>
          /\ tree'.ref # tree.ref
          /\ tree'.a.ref # tree.a.ref
          /\ tree'.b.ref = tree.b.ref
          /\ tree'.b = tree.b
          /\ top'.prev = tree ]_vars
\* a was changed and b is shared with the state before
C29_Witness ==
    /\ top.op = "execute"
    /\ top.key = "setA"
    /\ tree.a.v # top.prev.a.v
    /\ tree.ref # top.prev.ref
    /\ tree.b.ref = top.prev.b.ref

\* ============================================================ re-entrancy
\* the Store of src/src/core/store.ts with a listener that executes an
\* action of the store inside its notification. The store is the counter
\* store (HostKeys, HostReducer); its listeners are given at construction
\* time and stay:
\*   A: s => { if (s.count === Trigger) store.getAction(nested).execute() }
\*   B: s => { seen.push(s) }
Trigger == 1
ListenerOrders == {<<"A">>, <<"A", "B">>, <<"B", "A">>}
ReMiddlewares == {<<>>, <<"logger">>}

\* an event of a call; idx is the depth of the transition it belongs to
REv(ev, depth, who, s) == Ev(ev, depth, who, NoVal, NoVal, NoVal, s)

ReStore(s, ls, registered, nested) ==
    [state |-> s, listeners |-> ls,
     middlewares |-> ConstructMiddlewares("core", registered),
     nested |-> nested]

\* the state while a call runs, the events so far, an exception on its way
Run(s, log, threw) == [state |-> s, log |-> log, threw |-> threw]

\* A's test
Dispatches(l, s) == l = "A" /\ s = Trigger

DeepenEvents(evs, depth) ==
    [i \in 1 .. Len(evs) |-> REv(evs[i].ev, depth, evs[i].who, evs[i].out)]

RECURSIVE ReForEach(_, _, _, _)
RECURSIVE ReExecute(_, _, _, _)

\* this.listeners.forEach(listener => listener(this.state))
ReForEach(c, w, rest, depth) ==
    IF rest = <<>> THEN w
    ELSE LET l == Head(rest)
             called == [w EXCEPT !.log = Append(w.log, REv("notify", depth, l, w.state))]
         IN  IF Dispatches(l, w.state)
             THEN LET inner == ReExecute(c, called, c.nested, depth + 1)
                  IN  IF inner.threw THEN inner
                      ELSE ReForEach(c, inner, Tail(rest), depth)
             ELSE ReForEach(c, called, Tail(rest), depth)

\* action.execute(): the onAction hooks of the store passed (none is), the
\* executor (produce, setState: process hooks, commit, listeners, DevTools),
\* the ACTION_DISPATCHED DevTools event
ReExecute(c, w, key, depth) ==
    LET onEvs == DeepenEvents(
                    OnActionEvents(ActionMiddlewares("core", c.middlewares), 1,
                                   key, Undefined), depth)
        cand == HostReducer(key, w.state)
        fold == ProcessFold(c.middlewares, w.state, cand)
        committed ==
            Run(fold.state,
                w.log \o onEvs
                      \o <<REv("reducer", depth, key, cand)>>
                      \o DeepenEvents(fold.events, depth)
                      \o <<REv("commit", depth, key, fold.state)>>,
                FALSE)
        notified == ReForEach(c, committed, c.listeners, depth)
        dev1 == DevToolsDispatch(devtools, "STATE_CHANGED")
        dev2 == DevToolsDispatch(devtools, "ACTION_DISPATCHED")
    IN  IF notified.threw THEN notified
        ELSE IF dev1.threw \/ dev2.threw
        THEN [notified EXCEPT !.threw = TRUE,
                              !.log = Append(notified.log,
                                             REv("throw", depth, key, notified.state))]
        ELSE [notified EXCEPT !.log = Append(notified.log,
                                             REv("return", depth, key, notified.state))]

ROp(key, log, ret) == [key |-> key, log |-> log, ret |-> ret]

InitReentry ==
    /\ impl = "core"
    /\ state = 0
    /\ middlewares = <<>>
    /\ registeredMws = <<>>
    /\ listeners = <<>>
    /\ subs = [l \in Listeners |-> 0]
    /\ actions = ActionKeys
    /\ effects = EffectKeys
    /\ selectors = SelectorKeys
    /\ actionPayload = [k \in ActionKeys |-> Undefined]
    /\ devtools \in DevToolsKinds
    /\ lastOp = Op("new", "", NoVal, NoVal, NoVal, <<>>, "ok")
    /\ trace = <<>>
    /\ PluginsIdle
    /\ EffectIdle
    /\ SelectorIdle
    /\ DraftIdle
    /\ ExtensionsIdle
    /\ \E ls \in ListenerOrders, mws \in ReMiddlewares, nested \in HostKeys :
          rs = ReStore(0, ls, mws, nested)
    /\ rop = ROp("", <<>>, "ok")

\* store.getAction(key).execute(), called from outside the store
ReentrantExecute(key) ==
    /\ LET w == ReExecute(rs, Run(rs.state, <<>>, FALSE), key, 0)
       IN  /\ rs' = [rs EXCEPT !.state = w.state]
           /\ rop' = ROp(key, w.log, IF w.threw THEN "throws" ELSE "ok")
    /\ UNCHANGED <<storeVars, pluginVars, effectVars, selectorVars, draftVars,
                 extVars>>

NextReentry == \E key \in HostKeys : ReentrantExecute(key)

SpecReentry == InitReentry /\ [][NextReentry]_vars

\* ---- the events of the last call
\* the nested transition a notification at i started: the events after i
\* up to the next event of i's own depth
NestedOf(log, i) ==
    LET d == log[i].idx
        ends == {j \in (i + 1) .. Len(log) : log[j].idx <= d}
        last == IF ends = {} THEN Len(log)
                ELSE (CHOOSE j \in ends : \A k \in ends : j <= k) - 1
    IN  SubSeq(log, i + 1, last)

StartsNested(log, i) ==
    /\ log[i].ev = "notify"
    /\ i < Len(log)
    /\ log[i + 1].idx = log[i].idx + 1

\* the outer loop went on after the nested transition of i
OuterWentOn(log, i) ==
    \E j \in (i + 1) .. Len(log) : log[j].idx = log[i].idx /\ log[j].ev = "notify"

Whos(q, ev) == SelectSeq(q, LAMBDA e : e.ev = ev)
NotifiedOf(q, depth) ==
    LET ns == SelectSeq(q, LAMBDA e : e.ev = "notify" /\ e.idx = depth)
    IN  [i \in 1 .. Len(ns) |-> ns[i].who]

\* the reducer, the fold, the commit and the notification of every
\* subscriber of the nested transition are there, and it returned
NestedComplete(q, depth) ==
    /\ Len(Whos(q, "reducer")) >= 1
    /\ Len(Whos(q, "commit")) >= 1
    /\ NotifiedOf(q, depth) = rs.listeners
    /\ q[Len(q)].ev = "return"
    /\ q[Len(q)].idx = depth

\* C30: when a subscriber executes an action inside its notification, the
\* nested transition (onAction hooks, reducer, fold, commit, notification
\* of all subscribers) is over before the outer loop calls its next
\* subscriber, and when the outer action returns getState() is the state
\* the nested transition committed.
C30_NestedRunsToCompletion ==
    \A i \in 1 .. Len(rop.log) :
        StartsNested(rop.log, i) =>
            LET q == NestedOf(rop.log, i)
                depth == rop.log[i].idx + 1
            IN  /\ (OuterWentOn(rop.log, i) \/ rop.ret = "ok") =>
                      /\ NestedComplete(q, depth)
                      /\ ((\E k \in Range(rs.middlewares) : HasOnAction(k)) =>
                            Len(Whos(q, "onAction")) >= 1)
                /\ (rop.ret = "ok" =>
                      rs.state = Whos(q, "commit")[Len(Whos(q, "commit"))].out)

\* the states the notifications of the last call gave to listener l, and
\* the states its transitions committed, both in call order
ReceivedBy(log, l) ==
    LET ns == SelectSeq(log, LAMBDA e : e.ev = "notify" /\ e.who = l)
    IN  [i \in 1 .. Len(ns) |-> ns[i].out]
CommittedIn(log) ==
    LET cs == Whos(log, "commit")
    IN  [i \in 1 .. Len(cs) |-> cs[i].out]

\* C31: every subscriber is notified exactly once per committed transition
\* with the state that transition committed, also when a subscriber
\* executes an action inside its notification: the states a subscriber
\* receives are the committed states, in order, none skipped or repeated.
C31_NotifiedOncePerCommit ==
    rop.ret = "ok" =>
        \A l \in Range(rs.listeners) :
            ReceivedBy(rop.log, l) = CommittedIn(rop.log)

\* how many process events of the last operation the middleware at
\* position i of the configured list stands for
ProcessCallsOf(k) == Len(SelectSeq(trace, LAMBDA e : e.ev = "process" /\ e.who = k))
OccurrencesOf(q, k) == Cardinality({i \in 1 .. Len(q) : q[i] = k})

\* C32: a store constructed with config.middlewares = [M1..Mn] holds each
\* configured middleware once in its pipeline, and an action transition
\* calls each Mi.process once.
C32_EachMiddlewareOnce ==
    /\ middlewares = registeredMws
    /\ (IsActionOp /\ Committed) =>
          \A k \in Range(registeredMws) :
              ProcessCallsOf(k) = OccurrencesOf(registeredMws, k)

\* ===================================================== timed middlewares
\* a Store whose pipeline is one of createThrottleMiddleware(Delay), the
\* first createDebounceMiddleware(Delay) and the second
\* createDebounceMiddleware(Delay) of src/src/core/middleware.ts, with one
\* subscriber. Date.now() is the clock; it starts at Delay, far enough from
\* the closures' lastUpdate = 0 for the first update to pass.
Delay == 2
MaxClock == 6
TimedKinds == {"throttle", "debounce", "debounce2"}

\* the closure variables as declared; timer is the callback setTimeout
\* holds: <<>> when none is scheduled, else <<the time it is due>>
NewTimed(kind) ==
    [kind |-> kind, lastUpdate |-> 0, timeoutId |-> FALSE, timer |-> <<>>,
     pendingState |-> Null, listeners |-> <<>>]

\* process(prevState, nextState) at the time now: the closure afterwards
\* and the state returned
ThrottleProcess(m, now, prevState, nextState) ==
    IF now - m.lastUpdate >= Delay
    THEN [mw |-> [m EXCEPT !.lastUpdate = now], out |-> nextState]
    ELSE [mw |-> m, out |-> prevState]

DebounceProcess(m, now, prevState, nextState) ==
    LET cleared == IF m.timeoutId THEN [m EXCEPT !.timer = <<>>] ELSE m
    IN  IF now - cleared.lastUpdate >= Delay
        THEN [mw |-> [cleared EXCEPT !.lastUpdate = now], out |-> nextState]
        ELSE [mw |-> [cleared EXCEPT !.timeoutId = TRUE,
                                     !.timer = <<now + Delay>>],
              out |-> prevState]

Debounce2Process(m, now, prevState, nextState) ==
    [mw |-> [m EXCEPT !.pendingState = nextState,
                      !.timeoutId = TRUE,
                      !.timer = <<now + Delay>>],
     out |-> prevState]

TimedProcess(m, now, prevState, nextState) ==
    CASE m.kind = "throttle" -> ThrottleProcess(m, now, prevState, nextState)
      [] m.kind = "debounce" -> DebounceProcess(m, now, prevState, nextState)
      [] OTHER -> Debounce2Process(m, now, prevState, nextState)

\* the callback given to setTimeout: the closure afterwards and the states
\* it hands to the closure's own listeners
DebounceTimeout(m, now) ==
    [mw |-> [m EXCEPT !.lastUpdate = now, !.timeoutId = FALSE, !.timer = <<>>],
     handed |-> <<>>]

Debounce2Timeout(m, now) ==
    [mw |-> [m EXCEPT !.pendingState = Null, !.timeoutId = FALSE, !.timer = <<>>],
     handed |-> IF m.pendingState # Null
                THEN [i \in 1 .. Len(m.listeners) |-> m.pendingState]
                ELSE <<>>]

TimedTimeout(m, now) ==
    IF m.kind = "debounce" THEN DebounceTimeout(m, now)
    ELSE Debounce2Timeout(m, now)

\* the store: its state, the state its subscriber was last called with,
\* its middleware, the clock; suppressed is the candidate the middleware
\* held back in the last action, Null when that action was committed
TimedStore(s, seen, m, clock, suppressed) ==
    [state |-> s, seen |-> seen, mw |-> m, clock |-> clock,
     suppressed |-> suppressed]

InitTimed ==
    /\ impl = "core"
    /\ state = 0
    /\ middlewares = <<>>
    /\ registeredMws = <<>>
    /\ listeners = <<>>
    /\ subs = [l \in Listeners |-> 0]
    /\ actions = ActionKeys
    /\ effects = EffectKeys
    /\ selectors = SelectorKeys
    /\ actionPayload = [k \in ActionKeys |-> Undefined]
    /\ devtools = "absent"
    /\ lastOp = Op("new", "", NoVal, NoVal, NoVal, <<>>, "ok")
    /\ trace = <<>>
    /\ PluginsIdle
    /\ EffectIdle
    /\ SelectorIdle
    /\ DraftIdle
    /\ ReentryIdle
    /\ HostIdle
    /\ BroadcastIdle
    /\ \E kind \in TimedKinds :
          tm = TimedStore(0, Null, NewTimed(kind), Delay, Null)
    /\ tmop = "new"

\* store.getAction(key).execute(): the reducer, setState with the process
\* hook, the commit, the subscriber. No action is started so late that its
\* delay could not elapse
TimedExecute(key) ==
    /\ tm.clock + Delay <= MaxClock
    /\ LET cand == HostReducer(key, tm.state)
           r == TimedProcess(tm.mw, tm.clock, tm.state, cand)
       IN  tm' = [tm EXCEPT !.state = r.out,
                            !.seen = r.out,
                            !.mw = r.mw,
                            !.suppressed = IF r.out = cand THEN Null ELSE cand]
    /\ tmop' = "execute"
    /\ UNCHANGED <<storeVars, pluginVars, effectVars, selectorVars, draftVars,
                   reentryVars, hostVars, broadcastVars>>

\* a millisecond passes; a timer that is due runs first
Tick ==
    /\ tm.clock < MaxClock
    /\ IF tm.mw.timer = <<>> THEN TRUE ELSE tm.mw.timer[1] > tm.clock
    /\ tm' = [tm EXCEPT !.clock = @ + 1]
    /\ tmop' = "tick"
    /\ UNCHANGED <<storeVars, pluginVars, effectVars, selectorVars, draftVars,
                   reentryVars, hostVars, broadcastVars>>

\* the timer of the middleware is due and its callback runs
TimeoutFires ==
    /\ IF tm.mw.timer = <<>> THEN FALSE ELSE tm.mw.timer[1] <= tm.clock
    /\ LET r == TimedTimeout(tm.mw, tm.clock)
       IN  tm' = [tm EXCEPT !.mw = r.mw]
    /\ tmop' = "timeout"
    /\ UNCHANGED <<storeVars, pluginVars, effectVars, selectorVars, draftVars,
                   reentryVars, hostVars, broadcastVars>>

NextTimed ==
    \/ \E key \in HostKeys : TimedExecute(key)
    \/ Tick
    \/ TimeoutFires

\* time passes and due timers run
SpecTimed ==
    /\ InitTimed
    /\ [][NextTimed]_vars
    /\ WF_vars(Tick)
    /\ WF_vars(TimeoutFires)

\* C33: an update that the throttle or debounce middleware held back is not
\* lost: unless a further action comes, the candidate is in the end
\* committed and given to the subscriber.
C33_SuppressedIsCommitted ==
    \A cand \in States :
        (tm.suppressed = cand)
            ~> \/ tmop = "execute" /\ tm.suppressed # cand
               \/ tm.state = cand /\ tm.seen = cand

\* ------------------------------------- history plugin: present and flags
\* C34: while the plugin is initialised, no undo or redo is running and no
\* debounced pair is pending, historyState.present is host.getState().
C34_PresentIsHostState ==
    (hcfg.name = "history" /\ plugin.hostRef
        /\ ~plugin.isUndoing /\ ~plugin.isRedoing
        /\ plugin.pendingPrev = Null /\ plugin.pendingNext = Null)
    => plugin.present = host

\* PluginHost.setState on a host with a second subscriber that throws: the
\* state is replaced, the plugin's subscriber is called if it comes first
\* in the host's list (notified), and the exception leaves setState
HostSetStateThrows(c, w, next, notified) ==
    Throw(IF notified THEN HostSetState(c, w, next) ELSE [w EXCEPT !.host = next])

\* undo() on such a host: the statements up to host.setState
undoThrows(c, w, notified) ==
    IF ~w.plugin.hostRef THEN w
    ELSE IF w.plugin.past = <<>> THEN w
    ELSE LET last == w.plugin.past[Len(w.plugin.past)]
             redoEntry == HistoryEntry(last.action, last.prevState, last.nextState)
             w1 == [w EXCEPT !.plugin.isUndoing = TRUE,
                             !.plugin.past = SliceFront(w.plugin.past),
                             !.plugin.future = <<redoEntry>> \o w.plugin.future,
                             !.plugin.present = last.prevState,
                             !.events = Append(w.events,
                                 HEv("setState", NullType, Null, last.prevState))]
         IN  HostSetStateThrows(c, w1, last.prevState, notified)

\* redo() on such a host: the statements up to host.setState
redoThrows(c, w, notified) ==
    IF ~w.plugin.hostRef THEN w
    ELSE IF w.plugin.future = <<>> THEN w
    ELSE LET next == w.plugin.future[1]
             entry == HistoryEntry(next.action, next.prevState, next.nextState)
             w1 == [w EXCEPT !.plugin.isRedoing = TRUE,
                             !.plugin.future = Tail(w.plugin.future),
                             !.plugin.past = SliceLast(Append(w.plugin.past, entry),
                                                       c.limit),
                             !.plugin.present = next.nextState,
                             !.events = Append(w.events,
                                 HEv("setState", NullType, Null, next.nextState))]
         IN  HostSetStateThrows(c, w1, next.nextState, notified)

\* the plain plugin: no debounce, no filter, no persistKey
ThrowConfigs == { HistoryConfig(0, NoFilter, FALSE, TRUE, "ok") }

InitHistoryThrows ==
    /\ InitHistory
    /\ hcfg \in ThrowConfigs

\* api.undo() while another subscriber of the host throws
UndoThrows(notified) ==
    /\ hcfg.name = "history"
    /\ plugin.hostRef
    /\ LET w == undoThrows(hcfg, Now, notified)
       IN  /\ Becomes(w)
           /\ hop' = HOp("undoThrows", NullType, w,
                         IF w.events # <<>> THEN hop.redoable + 1
                         ELSE hop.redoable)
    /\ burst' = IF burst.len # 0 /\ hop'.sets > 0
                THEN [burst EXCEPT !.len = Replayed]
                ELSE burst
    /\ UNCHANGED <<hcfg, storeVars, unitVars>>

\* api.redo() while another subscriber of the host throws
RedoThrows(notified) ==
    /\ hcfg.name = "history"
    /\ plugin.hostRef
    /\ LET w == redoThrows(hcfg, Now, notified)
       IN  /\ Becomes(w)
           /\ hop' = HOp("redoThrows", NullType, w,
                         IF w.events # <<>> /\ hop.redoable > 0
                         THEN hop.redoable - 1
                         ELSE hop.redoable)
    /\ burst' = IF burst.len # 0 /\ hop'.sets > 0
                THEN [burst EXCEPT !.len = Replayed]
                ELSE burst
    /\ UNCHANGED <<hcfg, storeVars, unitVars>>

NextHistoryThrows ==
    \/ HistoryInit
    \/ \E key \in HostKeys : HostTransition(key)
    \/ Undo
    \/ Redo
    \/ ClearHistory
    \/ Teardown
    \/ \E notified \in BOOLEAN : UndoThrows(notified)
    \/ \E notified \in BOOLEAN : RedoThrows(notified)

SpecHistoryThrows == InitHistoryThrows /\ [][NextHistoryThrows]_vars

\* C35: isUndoing and isRedoing are false whenever no undo() or redo() is
\* running, also after an undo or redo in which host.setState threw.
C35_FlagsCleared ==
    hop.op # "create" => (~plugin.isUndoing /\ ~plugin.isRedoing)

\* ------------------------------------------------ the DevTools sink
\* what the last action would have done with no DevTools global
WithoutDevTools ==
    ActionExecute(impl, middlewares, lastOp.pre, lastOp.preListeners,
                  [l \in Listeners |-> PreSubs(l)], "absent",
                  lastOp.key, lastOp.payload)

\* C36: with the devTools object of enableQwiklyticsDevTools as the window
\* global, an action commits and returns as it does without DevTools, and
\* its events reach the sink.
C36_SinkReceives ==
    (IsActionOp /\ devtools = "sink") =>
        /\ lastOp.ret = WithoutDevTools.ret
        /\ state = WithoutDevTools.state
        /\ (WithoutDevTools.ret = "ok" =>
               /\ Positions("devtools") # {}
               /\ Positions("throw") = {})

\* ==================================================== a Store with plugins
\* the Store of src/src/core/store.ts ("core") or of src/unnamed/part_005
\* ("v5") built with one plugin: by new Store(config) or by createStore of
\* src/src/index.ts with the plugin in config.plugins, or without plugins
\* and the plugin initialised through the pluginRegistry of
\* src/src/plugins/index.ts. The plugin is createHistoryPlugin({}),
\* createHistoryPlugin({debounceTime}), createPersistPlugin({key}) or
\* createLoggerPlugin(); it is given as the plugin object or as a function
\* that returns it.
PhImpls == {"core", "v5"}
PhVias == {"new", "createStore", "registry"}
PhForms == {"object", "factory"}
PhKinds == {"history", "debounced", "persist", "logger"}
\* config.middlewares: <<>> when not given, else <<the array>>. "wrapped" is
\* the caller's createPluginMiddleware('logger', {})
PhMwConfigs == {<<>>, << <<>> >>, << <<"inc">> >>, << <<"wrapped">> >>}

PhHistoryConfig(kind) ==
    HistoryConfig(IF kind = "debounced" THEN 1 ELSE 0, NoFilter, FALSE, FALSE, "ok")
PhPersistConfig == PersistConfig(<<>>, {}, FALSE, "ok")

\* the name property of a middleware object
MwName(m) == IF m = "wrapped" THEN "plugin:logger" ELSE "undefined"

\* the fields of the object the plugins Map holds under the plugin's name
NoEntry == {}
PluginFields(kind) ==
    IF kind \in {"history", "debounced"} THEN {"name", "init", "api"}
    ELSE IF kind = "persist" THEN {"name", "init"}
    ELSE {"name", "version", "init", "destroy"}

\* the store: subs is the number of listeners the plugin has in
\* Store.listeners, inits and teardowns count the calls of plugin.init and
\* of the functions it returned, instance is what the registry holds
NewHost(im, via, form, kind, given) ==
    [impl |-> im, via |-> via, form |-> form, kind |-> kind, given |-> given,
     mws |-> IF given = <<>> THEN <<>> ELSE given[1],
     subs |-> 0, inits |-> 0, teardowns |-> 0,
     entry |-> NoEntry, instance |-> "none", destroyed |-> FALSE,
     w |-> World(IF kind = "persist" THEN [attached |-> FALSE] ELSE NewPlugin,
                 <<>>,
                 IF kind = "persist" THEN InitialState ELSE 0,
                 <<>>)]

\* plugin.init(store)
PluginInit(s) ==
    CASE s.kind \in {"history", "debounced"} ->
            [s EXCEPT !.w = init(PhHistoryConfig(s.kind), s.w),
                      !.subs = @ + 1, !.inits = @ + 1]
      [] s.kind = "persist" ->
            LET r == load(PhPersistConfig, s.w.storage)
            IN  [s EXCEPT !.w.host = IF r.restored # <<>>
                                     THEN PersistHostSetState(@, r.restored[1])
                                     ELSE @,
                          !.w.plugin = [attached |-> TRUE],
                          !.subs = @ + 1, !.inits = @ + 1]
      [] OTHER ->
            [s EXCEPT !.mws = Append(@, "pluginLogger"), !.inits = @ + 1]

\* Store.initializePlugin(pluginConfig): store.ts calls init for a function
\* only, part_005 for a function and for an object; what init returns is
\* kept as the api field
InitializePlugin(s) ==
    IF s.impl = "core" /\ s.form = "object"
    THEN [s EXCEPT !.entry = PluginFields(s.kind)]
    ELSE [PluginInit(s) EXCEPT !.entry = PluginFields(s.kind) \cup {"api"}]

\* new Store(config). In store.ts this.middlewares is config.middlewares
\* itself, and its elements, those a plugin pushed included, are pushed
\* onto it after the plugins are initialised
ConstructStore(im, via, form, kind, given, withPlugins) ==
    LET s0 == NewHost(im, via, form, kind, given)
        s1 == IF withPlugins THEN InitializePlugin(s0) ELSE s0
    IN  IF im = "core" /\ given # <<>>
        THEN [s1 EXCEPT !.mws = @ \o @]
        ELSE s1

\* createStore(config): new Store(config), then init of every element of
\* config.plugins that has an init property
createStore(im, form, kind, given) ==
    LET s == ConstructStore(im, "createStore", form, kind, given, TRUE)
    IN  IF form = "object" THEN PluginInit(s) ELSE s

BuiltHosts ==
    { ConstructStore(im, "new", form, kind, given, TRUE) :
        im \in PhImpls, form \in PhForms, kind \in PhKinds, given \in PhMwConfigs }
    \cup { createStore(im, form, kind, given) :
        im \in PhImpls, form \in PhForms, kind \in PhKinds, given \in PhMwConfigs }
    \cup { ConstructStore(im, "registry", "object", "logger", given, FALSE) :
        im \in PhImpls, given \in PhMwConfigs }

\* the last call: the entries pushed, the items written, the process calls
\* of the plugin's middleware, an exception
PhOp(op, pushes, writes, processes, threw) ==
    [op |-> op, pushes |-> pushes, writes |-> writes, processes |-> processes,
     threw |-> threw]

InitHost ==
    /\ impl = "core"
    /\ state = 0
    /\ middlewares = <<>>
    /\ registeredMws = <<>>
    /\ listeners = <<>>
    /\ subs = [l \in Listeners |-> 0]
    /\ actions = ActionKeys
    /\ effects = EffectKeys
    /\ selectors = SelectorKeys
    /\ actionPayload = [k \in ActionKeys |-> Undefined]
    /\ devtools = "absent"
    /\ lastOp = Op("new", "", NoVal, NoVal, NoVal, <<>>, "ok")
    /\ trace = <<>>
    /\ PluginsIdle
    /\ EffectIdle
    /\ SelectorIdle
    /\ DraftIdle
    /\ ReentryIdle
    /\ TimedIdle
    /\ BroadcastIdle
    /\ ph \in BuiltHosts
    /\ phop = PhOp("new", 0, 0, 0, FALSE)

\* the listeners the n calls of init subscribed, called in turn with the
\* committed state; each has the prevState of its own closure
RECURSIVE NotifyClosures(_, _, _, _, _)
NotifyClosures(c, w, prevState, nextState, n) ==
    IF n = 0 THEN w
    ELSE NotifyClosures(
            c,
            StateListener(c, [w EXCEPT !.plugin.prevState = prevState], nextState),
            prevState, nextState, n - 1)

\* save(next) by each of the n listeners of the persist plugin
RECURSIVE SaveClosures(_, _, _, _)
SaveClosures(c, st, item, n) ==
    IF n = 0 THEN item ELSE SaveClosures(c, st, save(c, st, item).storage, n - 1)

\* the state is {count} for the history and the logger plugin, and
\* {count, other} for the persist plugin
PhCount(kind, st) == IF kind = "persist" THEN st.count ELSE st
PhWithCount(kind, st, n) == IF kind = "persist" THEN [st EXCEPT !.count = n] ELSE n

\* store.getAction(key)(): reducer, process hooks, commit, the listeners
PhExecute(key) ==
    /\ ~ph.destroyed
    /\ LET prev == PhCount(ph.kind, ph.w.host)
           fold == ProcessFold(ph.mws, prev, HostReducer(key, prev))
           finalState == PhWithCount(ph.kind, ph.w.host, fold.state)
           committed == [ph.w EXCEPT !.host = finalState, !.events = <<>>]
           w1 == CASE ph.kind \in {"history", "debounced"} ->
                        NotifyClosures(PhHistoryConfig(ph.kind), committed,
                                       ph.w.plugin.prevState, finalState, ph.subs)
                   [] ph.kind = "persist" ->
                        [committed EXCEPT !.storage =
                            SaveClosures(PhPersistConfig, finalState, @, ph.subs)]
                   [] OTHER -> committed
       IN  /\ ph' = [ph EXCEPT !.w = w1]
           /\ phop' = PhOp("execute",
                           Len(SelectSeq(w1.events, LAMBDA e : e.ev = "push")),
                           IF ph.kind = "persist" THEN ph.subs ELSE 0,
                           Len(SelectSeq(fold.events,
                                         LAMBDA e : e.who = "pluginLogger")),
                           FALSE)
    /\ UNCHANGED <<storeVars, pluginVars, effectVars, selectorVars, draftVars,
                   reentryVars, timedVars, broadcastVars>>

\* the debounce timer of the history plugin elapses
PhTimer ==
    /\ ph.kind = "debounced"
    /\ ph.w.plugin.debounceTimer
    /\ LET w1 == flushDebounce(PhHistoryConfig(ph.kind), [ph.w EXCEPT !.events = <<>>])
       IN  /\ ph' = [ph EXCEPT !.w = w1]
           /\ phop' = PhOp("timer",
                           Len(SelectSeq(w1.events, LAMBDA e : e.ev = "push")),
                           0, 0, FALSE)
    /\ UNCHANGED <<storeVars, pluginVars, effectVars, selectorVars, draftVars,
                   reentryVars, timedVars, broadcastVars>>

\* store.getPluginApi(name)(): the function init returned, where the store
\* kept it as api, called by the caller
PhApiTeardown ==
    /\ ph.kind \in {"history", "debounced"}
    /\ "api" \in ph.entry
    /\ ph.impl = "v5" \/ ph.form = "factory"
    /\ ph.w.plugin.hostRef
    /\ LET w1 == teardown(PhHistoryConfig(ph.kind), [ph.w EXCEPT !.events = <<>>])
       IN  /\ ph' = [ph EXCEPT !.w = w1,
                               !.subs = IF @ > 0 THEN @ - 1 ELSE 0,
                               !.teardowns = @ + 1]
           /\ phop' = PhOp("teardown",
                           Len(SelectSeq(w1.events, LAMBDA e : e.ev = "push")),
                           0, 0, FALSE)
    /\ UNCHANGED <<storeVars, pluginVars, effectVars, selectorVars, draftVars,
                   reentryVars, timedVars, broadcastVars>>

\* the loop of Store.destroy over the plugins Map:
\*   if (plugin.instance?.destroy) plugin.instance.destroy(this)
DestroyPlugins(s) ==
    IF "instance" \in s.entry
    THEN [s EXCEPT !.teardowns = s.inits]
    ELSE s

\* part_005 Store.destroy()
PhStoreDestroy ==
    /\ ph.impl = "v5"
    /\ ~ph.destroyed
    /\ LET cleared == [ph EXCEPT !.subs = 0]
           looped == DestroyPlugins(cleared)
           r == DestroyV5(looped.mws, {})
       IN  ph' = [looped EXCEPT !.entry = NoEntry,
                                !.mws = r.middlewares,
                                !.destroyed = TRUE]
    /\ phop' = PhOp("destroy", 0, 0, 0, FALSE)
    /\ UNCHANGED <<storeVars, pluginVars, effectVars, selectorVars, draftVars,
                   reentryVars, timedVars, broadcastVars>>

\* pluginRegistry.initializePlugin('logger', store)
PhRegistryInit ==
    /\ ph.via = "registry"
    /\ ~ph.destroyed
    /\ IF ph.instance # "none"
       THEN ph' = ph
       ELSE ph' = [PluginInit(ph) EXCEPT !.instance = "api"]
    /\ phop' = PhOp("registryInit", 0, 0, 0, FALSE)
    /\ UNCHANGED <<storeVars, pluginVars, effectVars, selectorVars, draftVars,
                   reentryVars, timedVars, broadcastVars>>

\* the destroy of a built-in plugin, called with target:
\*   target.middlewares = target.middlewares.filter(m => m.name !== 'plugin:logger')
\* The api object init returned has no middlewares; the Store of part_005
\* has a getter only
LoggerDestroy(s, target) ==
    IF target = "instance" THEN [mws |-> s.mws, threw |-> TRUE]
    ELSE LET filtered == SelectSeq(s.mws, LAMBDA m : MwName(m) # "plugin:logger")
         IN  IF s.impl = "v5" THEN [mws |-> s.mws, threw |-> TRUE]
             ELSE [mws |-> filtered, threw |-> FALSE]

\* pluginRegistry.destroyPlugin('logger'), which passes the instance, or
\* plugin.destroy(store) called by the caller
PhPluginDestroy(path) ==
    /\ ph.kind = "logger"
    /\ ph.inits > 0
    /\ ~ph.destroyed
    /\ path = "registry" => ph.instance = "api"
    /\ LET r == LoggerDestroy(ph, IF path = "registry" THEN "instance" ELSE "store")
       IN  /\ ph' = [ph EXCEPT !.mws = r.mws,
                               !.instance = IF path = "registry" /\ ~r.threw
                                            THEN "none" ELSE @]
           /\ phop' = PhOp("pluginDestroy", 0, 0, 0, r.threw)
    /\ UNCHANGED <<storeVars, pluginVars, effectVars, selectorVars, draftVars,
                   reentryVars, timedVars, broadcastVars>>

NextHost ==
    \/ \E key \in HostKeys : PhExecute(key)
    \/ PhTimer
    \/ PhApiTeardown
    \/ PhStoreDestroy
    \/ PhRegistryInit
    \/ \E path \in {"registry", "direct"} : PhPluginDestroy(path)

SpecHost == InitHost /\ [][NextHost]_vars

\* ------------------------------------------- a Store with plugins: claims
IsHistoryKind(kind) == kind \in {"history", "debounced"}

\* C37: Store.destroy() calls the teardown function that the init of a
\* history or persist plugin returned: the plugin's subscription is gone
\* and a pending debounced entry is recorded.
C37_DestroyTearsDown ==
    [][ (phop'.op = "destroy" /\ ph.kind # "logger" /\ ph.inits > 0) =>
        /\ ph'.teardowns = ph'.inits
        /\ ph'.subs = 0
        /\ (IsHistoryKind(ph.kind) =>
               /\ ~ph'.w.plugin.hostRef
               /\ ph'.w.plugin.pendingPrev = Null
               /\ ~ph'.w.plugin.debounceTimer) ]_vars

\* C38: after the destroy of a built-in plugin the middleware its init
\* pushed is not in the store's list any more, and every other middleware
\* is, in the order it had.
C38_PluginMiddlewareRemoved ==
    [][ phop'.op = "pluginDestroy" =>
        /\ "pluginLogger" \notin Range(ph'.mws)
        /\ ph'.mws = SelectSeq(ph.mws, LAMBDA m : m # "pluginLogger") ]_vars

\* C40: createStore calls the init of a plugin of config.plugins once: a
\* history or persist plugin has one subscription, and a transition makes
\* one history entry and one storage write.
C40_InitOnce ==
    (ph.via = "createStore" /\ ph.kind # "logger") =>
        /\ ph.inits = 1
        /\ (~ph.destroyed /\ ph.teardowns = 0) => ph.subs = 1
        /\ (phop.op = "execute" /\ ph.teardowns = 0) =>
              /\ ph.kind = "history" => phop.pushes = 1
              /\ ph.kind = "persist" => phop.writes = 1

\* ================================================= the broadcast plugin
\* two tabs, each with a Store ("core" or "v5") on which
\* createBroadcastPlugin({}).init(store) of src/src/plugins/index.ts has run
\* once, on the same channel. A BroadcastChannel delivers a message to the
\* channel objects of that name other than the one that posted it; chan is
\* the messages posted and not yet delivered, in order.
Tabs == {1, 2}
OtherTab(t) == 3 - t
MaxInFlight == 2

\* the object handed to channel.postMessage; from is the posting tab, which
\* the message itself does not carry
Message(type, from, actionType, s) ==
    [type |-> type, from |-> from, source |-> "self",
     actionType |-> actionType, state |-> s]

PostMessage(tb, m) == [tb EXCEPT !.chan = Append(@, m)]

\* broadcastMiddleware.onAction(action), called by the Store of part_005
\* before the reducer and not called by the Store of store.ts
BroadcastOnAction(tb, t, key) ==
    IF ActionMiddlewares(tb.impl, <<"broadcast">>) = <<>> THEN tb
    ELSE PostMessage(tb, Message("ACTION", t, ActionType(key), NoVal))

\* action(payload) on tab t
RunAction(tb, t, key) ==
    [BroadcastOnAction(tb, t, key) EXCEPT !.st[t] = HostReducer(key, tb.st[t])]

\* the message listener of tab t
MessageListener(tb, t, m) ==
    IF m.source = "self"
    THEN [tabs |-> tb, applied |-> FALSE, threw |-> FALSE]
    ELSE CASE m.type = "ACTION" ->
                IF Lookup(ActionKeys, m.actionType) = "throws"
                THEN [tabs |-> tb, applied |-> FALSE, threw |-> TRUE]
                ELSE [tabs |-> RunAction(tb, t, m.actionType),
                      applied |-> TRUE, threw |-> FALSE]
           [] m.type = "STATE" ->
                [tabs |-> [tb EXCEPT !.st[t] = Hydrate(m.state, <<>>, subs).state],
                 applied |-> TRUE, threw |-> FALSE]
           [] OTHER ->
                [tabs |-> PostMessage(tb, Message("STATE", t, "", tb.st[t])),
                 applied |-> FALSE, threw |-> FALSE]

\* the last call: the message delivered, whether the tab executed the
\* action or hydrated the state, an exception of the listener
BOp(op, tab, type, from, applied, threw) ==
    [op |-> op, tab |-> tab, type |-> type, from |-> from,
     applied |-> applied, threw |-> threw]

InitBroadcast ==
    /\ impl = "core"
    /\ state = 0
    /\ middlewares = <<>>
    /\ registeredMws = <<>>
    /\ listeners = <<>>
    /\ subs = [l \in Listeners |-> 0]
    /\ actions = ActionKeys
    /\ effects = EffectKeys
    /\ selectors = SelectorKeys
    /\ actionPayload = [k \in ActionKeys |-> Undefined]
    /\ devtools = "absent"
    /\ lastOp = Op("new", "", NoVal, NoVal, NoVal, <<>>, "ok")
    /\ trace = <<>>
    /\ PluginsIdle
    /\ EffectIdle
    /\ SelectorIdle
    /\ DraftIdle
    /\ ReentryIdle
    /\ TimedIdle
    /\ HostIdle
    /\ \E im \in PhImpls :
         tabs = [impl |-> im, st |-> [t \in Tabs |-> 0], chan |-> <<>>,
                 timer |-> [t \in Tabs |-> TRUE]]
    /\ bop = BOp("new", 0, "", 0, FALSE, FALSE)

\* store.getAction('add')() on tab t
BcExecute(t) ==
    /\ Len(tabs.chan) < MaxInFlight
    /\ \E key \in ActionKeys : tabs' = RunAction(tabs, t, key)
    /\ bop' = BOp("execute", t, "", t, FALSE, FALSE)
    /\ UNCHANGED <<storeVars, pluginVars, effectVars, selectorVars, draftVars,
                   reentryVars, timedVars, hostVars>>

\* the setTimeout of init elapses on tab t: the initial STATE message
BcInitialState(t) ==
    /\ tabs.timer[t]
    /\ Len(tabs.chan) < MaxInFlight
    /\ tabs' = [PostMessage(tabs, Message("STATE", t, "", tabs.st[t]))
                    EXCEPT !.timer[t] = FALSE]
    /\ bop' = BOp("initialState", t, "STATE", t, FALSE, FALSE)
    /\ UNCHANGED <<storeVars, pluginVars, effectVars, selectorVars, draftVars,
                   reentryVars, timedVars, hostVars>>

\* api.broadcastAction('add', payload), api.broadcastState() and
\* api.requestState() on tab t
BcApi(t, type) ==
    /\ Len(tabs.chan) < MaxInFlight
    /\ \E key \in ActionKeys :
         tabs' = PostMessage(tabs,
                    CASE type = "ACTION" -> Message("ACTION", t, key, NoVal)
                      [] type = "STATE" -> Message("STATE", t, "", tabs.st[t])
                      [] OTHER -> Message("REQUEST_STATE", t, "", NoVal))
    /\ bop' = BOp("api", t, type, t, FALSE, FALSE)
    /\ UNCHANGED <<storeVars, pluginVars, effectVars, selectorVars, draftVars,
                   reentryVars, timedVars, hostVars>>

\* the channel delivers its oldest message to the tab that did not post it
BcReceive ==
    /\ tabs.chan # <<>>
    /\ LET m == Head(tabs.chan)
           t == OtherTab(m.from)
           r == MessageListener([tabs EXCEPT !.chan = Tail(@)], t, m)
       IN  /\ tabs' = r.tabs
           /\ bop' = BOp("receive", t, m.type, m.from, r.applied, r.threw)
    /\ UNCHANGED <<storeVars, pluginVars, effectVars, selectorVars, draftVars,
                   reentryVars, timedVars, hostVars>>

NextBroadcast ==
    \/ \E t \in Tabs : BcExecute(t)
    \/ \E t \in Tabs : BcInitialState(t)
    \/ \E t \in Tabs, type \in {"ACTION", "STATE", "REQUEST_STATE"} : BcApi(t, type)
    \/ BcReceive

SpecBroadcast == InitBroadcast /\ [][NextBroadcast]_vars

\* C39: a tab that receives an ACTION or a STATE message the other tab
\* posted executes the action or hydrates the state, and a tab applies no
\* message it posted itself.
C39_OtherTabsMessageApplied ==
    bop.op = "receive" =>
        /\ bop.from = bop.tab => ~bop.applied
        /\ (bop.from # bop.tab /\ bop.type \in {"ACTION", "STATE"}) => bop.applied

====
